---- MODULE Spec2Model ----
(***************************************************************************)
(* A model of ez-i18n's translation pipeline: path resolution,            *)
(* auto-discovery, the discovery cache, namespace derivation, deep merge   *)
(* and the generated translations module (packages/core/src).             *)
(*                                                                         *)
(* Strings the code inspects character by character are sequences of      *)
(* tokens: a word ("login"), "." or "/".  A path segment is a token        *)
(* sequence (<<"login", ".", "json">>), an absolute path a sequence of     *)
(* segments below the file-system root.  JSON values are tagged records.   *)
(***************************************************************************)
EXTENDS Integers, Sequences, FiniteSets, TLC

VARIABLES
  call,             \* the library call under examination: [fn, ...arguments]
  result,           \* what that call returned (NotCalled before it ran)
  fs,               \* the files that exist on disk (absolute paths)
  config,           \* the EzI18nConfig the plugin was created with
  isDev,            \* vitePlugin.isDev (command === 'serve')
  cache,            \* the content of .ez-i18n.json (NoCache when absent)
  resolved,         \* vitePlugin.resolved (Unset before buildStart)
  translationInfo,  \* vitePlugin.translationInfo, a Map in insertion order
  usedCache,        \* whether the last buildStart took the cache path
  cacheCheck,       \* what the last buildStart found of the cache file
  module,           \* the generated ez-i18n:translations module (Unset before load)
  loaded,           \* the last loadTranslations(locale) call on that module and its result
  watchedDirToLocale, \* configureServer's Map of watched directory -> locale, as [dirs |-> Map] (Unset before it ran)
  event,            \* the file-system event the dev server last delivered, and what became of it
  changes,          \* how many times the project changed on disk during the session
  stores,           \* the runtime's nanostores and the locale cookie
  calls             \* the setLocale calls made so far, in the order they were invoked

fnVars == <<call, result>>
serverVars == <<watchedDirToLocale, event, changes>>
runtimeVars == <<stores, calls>>
pluginVars ==
  <<fs, config, isDev, cache, resolved, translationInfo, usedCache, cacheCheck, module, loaded,
    serverVars, runtimeVars>>
vars ==
  <<call, result, fs, config, isDev, cache, resolved, translationInfo, usedCache, cacheCheck,
    module, loaded, watchedDirToLocale, event, changes, stores, calls>>

NotCalled == [done |-> FALSE]
Return(v) == [done |-> TRUE, value |-> v]
Unset == [t |-> "unset"]
NoCache == [t |-> "noCache"]
Undefined == [t |-> "undefined"]
NoEvent == [type |-> "none"]
NoStores == [t |-> "noStores"]

\* no dev server and no runtime
IdleServer == watchedDirToLocale = Unset /\ event = NoEvent /\ changes = 0
IdleRuntime == stores = NoStores /\ calls = <<>>

(***************************************************************************)
(* Sequences                                                               *)
(***************************************************************************)
Range(s) == {s[i] : i \in 1..Len(s)}

Last(s) == s[Len(s)]

Front(s) == SubSeq(s, 1, Len(s) - 1)

EndsWith(s, suffix) ==
  /\ Len(s) >= Len(suffix)
  /\ SubSeq(s, Len(s) - Len(suffix) + 1, Len(s)) = suffix

StartsWith(s, prefix) ==
  /\ Len(s) >= Len(prefix)
  /\ SubSeq(s, 1, Len(prefix)) = prefix

RECURSIVE Concat(_)
Concat(ss) == IF ss = <<>> THEN <<>> ELSE Head(ss) \o Concat(Tail(ss))

\* [...new Set(files)]: the first occurrence of every element, in order.
RECURSIVE Dedup(_)
Dedup(s) ==
  IF s = <<>> THEN <<>>
  ELSE LET front == Dedup(Front(s))
       IN IF Last(s) \in Range(front) THEN front ELSE Append(front, Last(s))

Includes(s, x) == x \in Range(s)

(***************************************************************************)
(* JSON values                                                             *)
(***************************************************************************)
Str(s) == [t |-> "str", s |-> s]
Arr(a) == [t |-> "arr", a |-> a]
Null == [t |-> "null"]
Obj(f) == [t |-> "obj", o |-> f]
EmptyObj == Obj(<<>>)

Keys(v) == DOMAIN v.o

\* typeof v === 'object' (true of null, arrays and objects)
TypeofObject(v) == v.t \in {"null", "arr", "obj"}

IsArray(v) == v.t = "arr"

\* the value converts to true: null and the empty string do not
Truthy(v) == ~(v.t = "null" \/ (v.t = "str" /\ v.s = ""))

FORBIDDEN_KEYS == {"__proto__", "constructor", "prototype"}

(***************************************************************************)
(* deepMerge (utils/translations) and the __deepMerge the generated module *)
(* carries.  Sources are JSON objects or non-objects (skipped); the target *)
(* is a JSON object.                                                       *)
(***************************************************************************)
\* a shallow merge: no value is ever merged recursively
BothPlainObjects_Never(hasTarget, targetVal, sourceVal) == FALSE

\* sourceVal !== null && typeof sourceVal === 'object' && !Array.isArray(sourceVal)
\*   && targetVal !== null && typeof targetVal === 'object' && !Array.isArray(targetVal)
\* (targetVal is undefined, so not an object, when result has no such key)
BothPlainObjects(hasTarget, targetVal, sourceVal) ==
  /\ sourceVal # Null /\ TypeofObject(sourceVal) /\ ~IsArray(sourceVal)
  /\ hasTarget
  /\ targetVal # Null /\ TypeofObject(targetVal) /\ ~IsArray(targetVal)

\* for (const key of Object.keys(source)) { if (FORBIDDEN_KEYS.has(key)) continue; ... }
MergedKeys(source) == Keys(source) \ FORBIDDEN_KEYS

\* if (!source || typeof source !== 'object') continue;
SkipSource(source) == ~Truthy(source) \/ ~TypeofObject(source)

RECURSIVE deepMerge(_, _)
deepMerge(target, sources) ==
  IF sources = <<>> THEN Obj(target.o)
  ELSE LET res == deepMerge(target, Front(sources))
           source == Last(sources)
       IN IF SkipSource(source) THEN res
          ELSE Obj([key \in Keys(res) \cup MergedKeys(source) |->
                 IF key \notin MergedKeys(source) THEN res.o[key]
                 ELSE IF BothPlainObjects(key \in Keys(res),
                                          IF key \in Keys(res) THEN res.o[key] ELSE Undefined,
                                          source.o[key])
                      THEN deepMerge(res.o[key], <<source.o[key]>>)
                      ELSE source.o[key]])

\* sv && typeof sv === 'object' && !Array.isArray(sv) && tv && typeof tv === 'object' && !Array.isArray(tv)
EmittedBothPlainObjects(hasTv, tv, sv) ==
  /\ Truthy(sv) /\ TypeofObject(sv) /\ ~IsArray(sv)
  /\ hasTv
  /\ Truthy(tv) /\ TypeofObject(tv) /\ ~IsArray(tv)

RECURSIVE __deepMerge(_, _)
__deepMerge(target, sources) ==
  IF sources = <<>> THEN Obj(target.o)
  ELSE LET res == __deepMerge(target, Front(sources))
           source == Last(sources)
       IN IF SkipSource(source) THEN res
          ELSE Obj([key \in Keys(res) \cup MergedKeys(source) |->
                 IF key \notin MergedKeys(source) THEN res.o[key]
                 ELSE IF EmittedBothPlainObjects(key \in Keys(res),
                                                 IF key \in Keys(res) THEN res.o[key] ELSE Undefined,
                                                 source.o[key])
                      THEN __deepMerge(res.o[key], <<source.o[key]>>)
                      ELSE source.o[key]])

(***************************************************************************)
(* Paths and path strings                                                  *)
(***************************************************************************)
\* a directory name, and a file name <stem>.json
D(name) == <<name>>
J(stem) == <<stem, ".", "json">>

\* the segment ".." as path.relative writes it: two dots
UpSeg == <<".", ".">>

\* the segments joined by "/" (a relative path string)
RECURSIVE PathStr(_)
PathStr(segs) ==
  IF segs = <<>> THEN <<>>
  ELSE IF Len(segs) = 1 THEN segs[1]
  ELSE PathStr(Front(segs)) \o <<"/">> \o Last(segs)

\* the string of an absolute path: "/" before every segment
AbsStr(path) == Concat([i \in 1..Len(path) |-> <<"/">> \o path[i]])

CommonPrefixLen(a, b) ==
  CHOOSE n \in 0..Len(a) :
    /\ n <= Len(b)
    /\ SubSeq(a, 1, n) = SubSeq(b, 1, n)
    /\ \A m \in (n + 1)..Len(a) : m > Len(b) \/ SubSeq(a, 1, m) # SubSeq(b, 1, m)

\* path.relative(from, to) for absolute, normalised paths, as its segments
PathRelative(from, to) ==
  LET n == CommonPrefixLen(from, to)
  IN [i \in 1..(Len(from) - n) |-> UpSeg] \o SubSeq(to, n + 1, Len(to))

\* path.dirname, path.join(dir, name) of absolute paths
Dirname(path) == Front(path)
PathJoin(dir, segs) == dir \o segs

IsUnder(path, dir) == Len(path) > Len(dir) /\ StartsWith(path, dir)

\* file.endsWith('.json')
EndsWithJson(path) == path # <<>> /\ EndsWith(Last(path), <<".", "json">>)

(***************************************************************************)
(* Namespace derivation and wrapping (utils/translations)                  *)
(***************************************************************************)
JsonExtensions == {"json", "JSON", "Json"}

\* relative.replace(/\.json$/i, '')
StripJsonExt(str) ==
  IF Len(str) >= 2 /\ str[Len(str) - 1] = "." /\ str[Len(str)] \in JsonExtensions
  THEN SubSeq(str, 1, Len(str) - 2)
  ELSE str

\* withoutExt.replace(/[\\/]/g, '.')
SeparatorsToDots(str) == [i \in 1..Len(str) |-> IF str[i] \in {"/", "\\"} THEN "." ELSE str[i]]

\* namespace.replace(/\.index$/, '')
StripTrailingIndex(str) ==
  IF EndsWith(str, <<".", "index">>) THEN SubSeq(str, 1, Len(str) - 2) ELSE str

getNamespaceFromPath(filePath, localeDir) ==
  LET relative == PathStr(PathRelative(localeDir, filePath))
      withoutExt == StripJsonExt(relative)
      namespace == SeparatorsToDots(withoutExt)
  IN StripTrailingIndex(namespace)

\* namespace.split('.'): the pieces between the dots, each a token sequence
RECURSIVE SplitDots(_)
SplitDots(str) ==
  IF \A i \in 1..Len(str) : str[i] # "."
  THEN <<str>>
  ELSE LET d == CHOOSE i \in 1..Len(str) :
                  str[i] = "." /\ \A j \in (i + 1)..Len(str) : str[j] # "."
       IN Append(SplitDots(SubSeq(str, 1, d - 1)), SubSeq(str, d + 1, Len(str)))

\* a piece as an object key: pieces are one word, or empty
PartKey(part) == IF part = <<>> THEN "" ELSE part[1]

\* for (let i = parts.length - 1; i >= 0; i--) result = { [parts[i]]: result };
RECURSIVE WrapParts(_, _)
WrapParts(parts, content) ==
  IF parts = <<>> THEN content
  ELSE WrapParts(Front(parts), Obj([k \in {PartKey(Last(parts))} |-> content]))

wrapWithNamespace(namespace, content) ==
  IF namespace = <<>> THEN content ELSE WrapParts(SplitDots(namespace), content)

\* generateNamespaceWrapperCode: the same routine, emitted into the module
__wrapWithNamespace(namespace, content) ==
  IF namespace = <<>> THEN content ELSE WrapParts(SplitDots(namespace), content)

(***************************************************************************)
(* The project on disk                                                     *)
(***************************************************************************)
ProjectRoot == <<D("proj")>>
PublicDir == PathJoin(ProjectRoot, <<D("public")>>)
\* DEFAULT_I18N_DIR = './public/i18n'
DefaultI18nSegs == <<D("public"), D("i18n")>>
DefaultI18nDir == PathJoin(ProjectRoot, DefaultI18nSegs)
SrcI18nSegs == <<D("src"), D("i18n")>>
SrcI18nDir == PathJoin(ProjectRoot, SrcI18nSegs)

Num(n) == [t |-> "num", n |-> n]

\* the files a project of the model may hold
EnLogin == PathJoin(DefaultI18nDir, <<D("en"), D("auth"), J("login")>>)
EnCommon == PathJoin(DefaultI18nDir, <<D("en"), J("common")>>)
EnRoot == PathJoin(DefaultI18nDir, <<J("en")>>)
EsCommon == PathJoin(DefaultI18nDir, <<D("es"), J("common")>>)
FrRoot == PathJoin(DefaultI18nDir, <<J("fr")>>)
DeNotes == PathJoin(DefaultI18nDir, <<D("de"), <<"notes", ".", "txt">>>>)
SrcEnSegs == Append(SrcI18nSegs, D("en"))
SrcEnDir == PathJoin(ProjectRoot, SrcEnSegs)
SrcA == PathJoin(SrcEnDir, <<J("a")>>)
SrcB == PathJoin(SrcEnDir, <<J("b")>>)
SrcZA == PathJoin(SrcEnDir, <<D("z"), J("a")>>)
\* a file outside public/ whose path sorts before public/
I18nEn == PathJoin(ProjectRoot, <<D("i18n"), J("en")>>)

PublicFiles == {EnLogin, EnCommon, EnRoot, EsCommon, FrRoot, DeNotes}
SrcFiles == {SrcA, SrcB, SrcZA}

\* JSON.parse of what each translation file holds
FileContent(file) ==
  CASE file = EnLogin -> Obj([title |-> Str("Sign In")])
    [] file = EnCommon -> Obj([welcome |-> Str("Welcome"), auth |-> Str("Account")])
    [] file = EnRoot -> Obj([welcome |-> Str("Hello")])
    [] file = EsCommon -> Obj([welcome |-> Str("Hola")])
    [] file = FrRoot -> Obj([welcome |-> Str("Salut")])
    [] file = SrcA -> Obj([x |-> Num(1)])
    [] file = SrcB -> Obj([x |-> Num(2), y |-> Num(3)])
    [] file = SrcZA -> Obj([x |-> Num(9)])
    [] file = I18nEn -> Obj([welcome |-> Str("Hi")])
    [] OTHER -> EmptyObj

(***************************************************************************)
(* Objects and Maps whose iteration order the code relies on: a sequence   *)
(* of [key, value] entries in insertion order                              *)
(***************************************************************************)
MapKeys(m) == [i \in 1..Len(m) |-> m[i].key]
MapHas(m, k) == \E i \in 1..Len(m) : m[i].key = k
MapGet(m, k) == m[CHOOSE i \in 1..Len(m) : m[i].key = k].value
\* m[k] = v, map.set(k, v): an existing key keeps its place
MapSet(m, k, v) ==
  IF MapHas(m, k)
  THEN [i \in 1..Len(m) |-> IF m[i].key = k THEN [key |-> k, value |-> v] ELSE m[i]]
  ELSE Append(m, [key |-> k, value |-> v])
MapKeySet(m) == {m[i].key : i \in 1..Len(m)}

(***************************************************************************)
(* String order                                                            *)
(***************************************************************************)
\* the tokens of the model's paths in collation order: punctuation before
\* letters, words alphabetically
TokenOrder ==
  <<".", "/", "a", "auth", "b", "common", "de", "en", "es", "fr", "i18n",
    "index", "json", "login", "notes", "page", "proj", "public", "settings",
    "src", "txt", "z">>

TokenRank(tok) == CHOOSE i \in 1..Len(TokenOrder) : TokenOrder[i] = tok

RECURSIVE StrLess(_, _)
StrLess(a, b) ==
  IF b = <<>> THEN FALSE
  ELSE IF a = <<>> THEN TRUE
  ELSE IF Head(a) = Head(b) THEN StrLess(Tail(a), Tail(b))
  ELSE TokenRank(Head(a)) < TokenRank(Head(b))

\* a.localeCompare(b) < 0 for two absolute paths
LocaleCompareLess(a, b) == StrLess(AbsStr(a), AbsStr(b))

\* files.sort((a, b) => a.localeCompare(b)): a stable sort
InsertSorted(x, sorted) ==
  LET n == Cardinality({i \in 1..Len(sorted) : ~LocaleCompareLess(x, sorted[i])})
  IN SubSeq(sorted, 1, n) \o <<x>> \o SubSeq(sorted, n + 1, Len(sorted))

RECURSIVE SortPaths(_)
SortPaths(files) ==
  IF files = <<>> THEN <<>> ELSE InsertSorted(Last(files), SortPaths(Front(files)))

\* locales.sort(): the default order of one-word strings
InsertSortedWord(x, sorted) ==
  LET n == Cardinality({i \in 1..Len(sorted) : TokenRank(sorted[i]) <= TokenRank(x)})
  IN SubSeq(sorted, 1, n) \o <<x>> \o SubSeq(sorted, n + 1, Len(sorted))

RECURSIVE SortWords(_)
SortWords(words) ==
  IF words = <<>> THEN <<>> ELSE InsertSortedWord(Last(words), SortWords(Front(words)))

Reverse(s) == [i \in 1..Len(s) |-> s[Len(s) + 1 - i]]

(***************************************************************************)
(* The file system as the resolver sees it                                 *)
(***************************************************************************)
\* fs.statSync(p).isDirectory(): a directory exists when a file lies below it
isDirectory(path) == \E f \in fs : IsUnder(f, path)

\* fs.existsSync(file)
ExistsSync(path) == path \in fs \/ isDirectory(path)

RECURSIVE SetToSortedSeq(_)
SetToSortedSeq(S) ==
  IF S = {} THEN <<>>
  ELSE LET least == CHOOSE x \in S : \A y \in S \ {x} : LocaleCompareLess(x, y)
       IN <<least>> \o SetToSortedSeq(S \ {least})

\* glob('**/*.json', {cwd, absolute: true}): every .json file below cwd.
\* tinyglobby promises no order; the model hands the matches back in
\* descending order, so that only the callers' sort orders them.
GlobJson(cwd) == Reverse(SetToSortedSeq({f \in fs : IsUnder(f, cwd) /\ EndsWithJson(f)}))

(***************************************************************************)
(* Path classification and resolution (utils/translations)                 *)
(***************************************************************************)
\* A configured path string below the project root: its segments, whether it
\* ends with "/" and whether it goes on with the wildcard "/**/*.json".
PathString(segs, slash, star) == [t |-> "string", segs |-> segs, slash |-> slash, star |-> star]
FilePathString(segs) == PathString(segs, FALSE, FALSE)
FolderPathString(segs) == PathString(segs, TRUE, FALSE)
GlobPathString(segs) == PathString(segs, FALSE, TRUE)
PathArray(items) == [t |-> "array", items |-> items]

detectPathType(input) ==
  IF input.t = "array" THEN "array"
  ELSE IF input.star THEN "glob"
  ELSE IF input.slash THEN "folder"
  ELSE "file"

\* path.resolve(projectRoot, input.replace(/\/$/, ''))
PathResolve(projectRoot, input) == PathJoin(projectRoot, input.segs)

\* what an entry of the given type expands to, before the final dedup and sort
ExpandString(input, projectRoot) ==
  LET type == detectPathType(input)
      filePath == PathResolve(projectRoot, input)
  IN CASE type = "glob" -> GlobJson(filePath)
       [] type = "folder" -> GlobJson(filePath)
       [] OTHER -> IF isDirectory(filePath) THEN GlobJson(filePath) ELSE <<filePath>>

\* the array order kept: deduplicated, never sorted
DedupAndSort_ArrayOrder(files) == Dedup(files)

\* return [...new Set(files)].sort((a, b) => a.localeCompare(b));
DedupAndSort(files) == SortPaths(Dedup(files))

resolveTranslationPaths(input, projectRoot) ==
  IF detectPathType(input) = "array"
  THEN DedupAndSort(Concat([i \in 1..Len(input.items) |->
                              DedupAndSort(ExpandString(input.items[i], projectRoot))]))
  ELSE DedupAndSort(ExpandString(input, projectRoot))


(***************************************************************************)
(* Auto-discovery (utils/translations)                                     *)
(***************************************************************************)
\* a one-word string as the word it reads (locale codes are one word)
Word(str) == str[1]

\* path.basename(name, '.json')
BasenameJson(name) ==
  IF EndsWith(name, <<".", "json">>) THEN SubSeq(name, 1, Len(name) - 2) ELSE name

\* The Dirents of a directory: the names directly below it, each a directory
\* or a file.
DirEntries(dir) ==
  {[name |-> f[Len(dir) + 1], isDir |-> Len(f) > Len(dir) + 1] : f \in {g \in fs : IsUnder(g, dir)}}

\* fs.readdirSync promises no order: every order of the entries may come back
ReaddirOrders(dir) ==
  LET E == DirEntries(dir)
  IN {order \in [1..Cardinality(E) -> E] : \A e \in E : \E i \in DOMAIN order : order[i] = e}

\* if (configuredLocales && configuredLocales.length > 0) { if (!configuredLocales.includes(locale)) continue; }
SkippedByAllowList(locale, configuredLocales) ==
  /\ configuredLocales # Undefined
  /\ Len(configuredLocales.list) > 0
  /\ ~Includes(configuredLocales.list, locale)

\* the body of `for (const entry of entries)`: st is [translations, discoveredLocales]
DiscoverEntry(st, entry, absoluteBaseDir, configuredLocales) ==
  IF entry.isDir
  THEN LET locale == Word(entry.name)
           files == GlobJson(PathJoin(absoluteBaseDir, <<entry.name>>))
       IN IF SkippedByAllowList(locale, configuredLocales) THEN st
          ELSE IF Len(files) > 0
          THEN [translations |-> MapSet(st.translations, locale, SortPaths(files)),
                discoveredLocales |-> Append(st.discoveredLocales, locale)]
          ELSE st
  ELSE IF EndsWith(entry.name, <<".", "json">>)
  THEN LET locale == Word(BasenameJson(entry.name))
           filePath == PathJoin(absoluteBaseDir, <<entry.name>>)
           fresh == ~MapHas(st.translations, locale)
           before == IF fresh THEN <<>> ELSE MapGet(st.translations, locale)
       IN IF SkippedByAllowList(locale, configuredLocales) THEN st
          ELSE [translations |-> MapSet(st.translations, locale, Append(before, filePath)),
                discoveredLocales |-> IF fresh THEN Append(st.discoveredLocales, locale)
                                      ELSE st.discoveredLocales]
  ELSE st

RECURSIVE DiscoverEntries(_, _, _)
DiscoverEntries(entries, absoluteBaseDir, configuredLocales) ==
  IF entries = <<>> THEN [translations |-> <<>>, discoveredLocales |-> <<>>]
  ELSE DiscoverEntry(DiscoverEntries(Front(entries), absoluteBaseDir, configuredLocales),
                     Last(entries), absoluteBaseDir, configuredLocales)

\* entries is what fs.readdirSync(absoluteBaseDir) returned, in its order
autoDiscoverTranslations(absoluteBaseDir, configuredLocales, entries) ==
  IF ~isDirectory(absoluteBaseDir)
  THEN [locales |-> IF configuredLocales # Undefined THEN configuredLocales.list ELSE <<>>,
        translations |-> <<>>]
  ELSE LET st == DiscoverEntries(entries, absoluteBaseDir, configuredLocales)
       IN [locales |-> SortWords(Dedup(st.discoveredLocales)),
           translations |-> st.translations]


(***************************************************************************)
(* resolveTranslationsConfig (utils/translations) and the discovery cache  *)
(***************************************************************************)
\* config.translations: absent, a base-directory string, or a per-locale
\* mapping (an object: [key, value] entries in the order written)
Mapping(entries) == [t |-> "mapping", entries |-> entries]

\* entries is what readdirSync returns should the base directory be scanned
resolveTranslationsConfig(translations, projectRoot, configuredLocales, entries) ==
  IF translations = Undefined
  THEN autoDiscoverTranslations(PathJoin(projectRoot, DefaultI18nSegs), configuredLocales, entries)
  ELSE IF translations.t = "string"
  THEN autoDiscoverTranslations(PathResolve(projectRoot, translations), configuredLocales, entries)
  ELSE [locales |-> MapKeys(translations.entries),
        translations |-> [i \in 1..Len(translations.entries) |->
                            [key |-> translations.entries[i].key,
                             value |-> resolveTranslationPaths(translations.entries[i].value,
                                                               projectRoot)]]]

CACHE_VERSION == 1

\* loadCache: null when the file is absent or its version is not CACHE_VERSION
loadCache == IF cache # NoCache /\ cache.version = CACHE_VERSION THEN cache ELSE NoCache

\* saveCache: what .ez-i18n.json holds afterwards (lastScan is never read back)
saveCache(discovered) == [version |-> CACHE_VERSION, discovered |-> discovered]

\* a cache taken for valid whatever is on disk
isCacheValid_Always(c) == TRUE

\* isCacheValid: every file of every locale still exists
isCacheValid(c) ==
  \A i \in 1..Len(c.discovered) : \A j \in 1..Len(c.discovered[i].value) :
    ExistsSync(c.discovered[i].value[j])

(***************************************************************************)
(* Paths as the generated module needs them (utils/translations)           *)
(***************************************************************************)
\* relativePath.startsWith('public/') || relativePath === 'public'
isInPublicDir(filePath, projectRoot) ==
  LET relativePath == PathRelative(projectRoot, filePath)
  IN relativePath # <<>> /\ relativePath[1] = D("public")

\* the URL a file is fetched from: its path below the project root, with a
\* leading public/ removed
toPublicUrl(filePath, projectRoot) ==
  LET relativePath == PathRelative(projectRoot, filePath)
  IN IF Len(relativePath) > 1 /\ relativePath[1] = D("public")
     THEN Tail(relativePath)
     ELSE relativePath

\* the import specifier './<path below the project root>', as those segments
toRelativeImport(absolutePath, projectRoot) == PathRelative(projectRoot, absolutePath)

\* `/${relativePath}/**/*.json`
toGlobPattern(baseDir, projectRoot) ==
  [t |-> "glob", rooted |-> TRUE, segs |-> PathRelative(projectRoot, baseDir)]

\* the locale base directory below the project root, a leading public/ removed
getLocaleBaseDirForNamespace(localeBaseDir, projectRoot) ==
  LET relativePath == PathRelative(projectRoot, localeBaseDir)
  IN IF Len(relativePath) > 1 /\ relativePath[1] = D("public")
     THEN Tail(relativePath)
     ELSE relativePath


(***************************************************************************)
(* The Vite plugin: buildStart                                             *)
(***************************************************************************)
\* an explicit pathBasedNamespacing option
Bool(v) == [t |-> "bool", v |-> v]

\* const isAutoDiscovery = !config.translations || typeof config.translations === 'string';
isAutoDiscovery(cfg) == cfg.translations.t \in {"undefined", "string"}

\* config.pathBasedNamespacing ?? isAutoDiscovery
PathBasedNamespacingOf(cfg) ==
  IF cfg.pathBasedNamespacing = Undefined THEN isAutoDiscovery(cfg)
  ELSE cfg.pathBasedNamespacing.v

translationsBaseDir(cfg, projectRoot) ==
  IF cfg.translations.t = "string"
  THEN PathResolve(projectRoot, cfg.translations)
  ELSE PathJoin(projectRoot, DefaultI18nSegs)

\* files.length > 0 && isInPublicDir(files[0], projectRoot)
FilesInPublic(files, projectRoot) == Len(files) > 0 /\ isInPublicDir(files[1], projectRoot)

TranslationInfo(locale, files, localeBaseDir, isPublic, globPattern) ==
  [locale |-> locale, files |-> files, localeBaseDir |-> localeBaseDir,
   isPublic |-> isPublic, globPattern |-> globPattern]

\* for (const x of xs) m = f(m, x)
ForEach(m, xs, f(_, _)) ==
  LET after[i \in 0..Len(xs)] == IF i = 0 THEN m ELSE f(after[i - 1], xs[i])
  IN after[Len(xs)]

\* buildStart, lines 76-102: the state a valid cache is turned into
BuildFromCache(cfg, c, projectRoot, info) ==
  LET baseDir == translationsBaseDir(cfg, projectRoot)
      SetBaseDir(m, locale) == MapSet(m, locale, PathJoin(baseDir, <<D(locale)>>))
      localeBaseDirs == ForEach(<<>>, MapKeys(c.discovered), SetBaseDir)
      SetInfo(m, e) ==
        MapSet(m, e.key, TranslationInfo(e.key, e.value, MapGet(localeBaseDirs, e.key),
                                         FilesInPublic(e.value, projectRoot), Undefined))
  IN [resolved |-> [locales |-> IF cfg.locales # Undefined THEN cfg.locales.list
                                ELSE MapKeys(c.discovered),
                    translations |-> c.discovered,
                    pathBasedNamespacing |-> PathBasedNamespacingOf(cfg),
                    localeBaseDirs |-> localeBaseDirs],
      translationInfo |-> ForEach(info, c.discovered, SetInfo),
      cache |-> c]

\* buildStart, lines 122-145: the base directory of one locale
LocaleBaseDir(cfg, locale, projectRoot) ==
  LET baseDir == translationsBaseDir(cfg, projectRoot)
  IN IF isAutoDiscovery(cfg) THEN PathJoin(baseDir, <<D(locale)>>)
     ELSE IF MapHas(cfg.translations.entries, locale)
     THEN LET localeConfig == MapGet(cfg.translations.entries, locale)
              pathType == detectPathType(localeConfig)
          IN CASE pathType = "folder" -> PathResolve(projectRoot, localeConfig)
               [] pathType = "file" -> Dirname(PathResolve(projectRoot, localeConfig))
               [] pathType = "glob" -> PathResolve(projectRoot, localeConfig)
               [] OTHER -> baseDir
     ELSE baseDir

\* an import.meta.glob pattern '<prefix><segs>/**/*.json': rooted when the
\* prefix is '/', as toGlobPattern writes it
GlobPattern(rooted, segs) == [t |-> "glob", rooted |-> rooted, segs |-> segs]

\* buildStart, lines 171-186: the pattern of a locale in dev mode, if any
DevGlobPattern(cfg, locale, projectRoot) ==
  LET localeConfig ==
        IF cfg.translations.t = "string"
        THEN FolderPathString(Append(cfg.translations.segs, D(locale)))
        ELSE IF MapHas(cfg.translations.entries, locale)
        THEN MapGet(cfg.translations.entries, locale)
        ELSE Undefined
  IN IF localeConfig.t # "string" THEN Undefined
     ELSE IF detectPathType(localeConfig) = "glob"
     THEN GlobPattern(FALSE, localeConfig.segs)
     ELSE IF detectPathType(localeConfig) = "folder"
     THEN toGlobPattern(PathResolve(projectRoot, localeConfig), projectRoot)
     ELSE Undefined

\* buildStart, lines 108-194: a fresh resolution
BuildFresh(cfg, dev, c, projectRoot, info, entries) ==
  LET r == resolveTranslationsConfig(cfg.translations, projectRoot, cfg.locales, entries)
      finalLocales == IF cfg.locales # Undefined /\ Len(cfg.locales.list) > 0
                      THEN cfg.locales.list ELSE r.locales
      SetBaseDir(m, locale) == MapSet(m, locale, LocaleBaseDir(cfg, locale, projectRoot))
      localeBaseDirs == ForEach(<<>>, finalLocales, SetBaseDir)
      SetInfo(m, locale) ==
        LET files == IF MapHas(r.translations, locale) THEN MapGet(r.translations, locale)
                     ELSE <<>>
            filesInPublic == FilesInPublic(files, projectRoot)
            globPattern == IF dev /\ cfg.translations # Undefined /\ ~filesInPublic
                           THEN DevGlobPattern(cfg, locale, projectRoot)
                           ELSE Undefined
        IN MapSet(m, locale, TranslationInfo(locale, files, MapGet(localeBaseDirs, locale),
                                             filesInPublic, globPattern))
  IN [resolved |-> [locales |-> finalLocales,
                    translations |-> r.translations,
                    pathBasedNamespacing |-> PathBasedNamespacingOf(cfg),
                    localeBaseDirs |-> localeBaseDirs],
      translationInfo |-> ForEach(info, finalLocales, SetInfo),
      cache |-> IF ~dev /\ Len(r.translations) > 0 THEN saveCache(r.translations) ELSE c]

\* the cache consulted in every mode
CacheUsable_AnyMode(dev) == loadCache # NoCache /\ isCacheValid(loadCache)

\* if (!isDev) { const cache = loadCache(projectRoot); if (cache && isCacheValid(cache, projectRoot)) ...
CacheUsable(dev) == ~dev /\ loadCache # NoCache /\ isCacheValid(loadCache)

\* what buildStart learns of the cache file: not read in dev mode, else
\* absent (or of another version), invalid or valid
CacheCheck(dev) ==
  IF dev THEN "notRead"
  ELSE IF loadCache = NoCache THEN "absent"
  ELSE IF isCacheValid(loadCache) THEN "valid"
  ELSE "invalid"


(***************************************************************************)
(* The generated translations module (ez-i18n:translations).  A loader is  *)
(* kept as what its emitted body does: its kind and the literals written   *)
(* into it.                                                                *)
(***************************************************************************)
DeepMergeHelper == "__deepMerge"
NamespaceHelper == "__wrapWithNamespace"
PublicLoaderHelper == "__loadPublicJson"

\* `{ url: ..., path: ..., namespace: ... }`
PublicFileInfos(files, localeBaseDir, projectRoot) ==
  [i \in 1..Len(files) |->
     [url |-> toPublicUrl(files[i], projectRoot), path |-> files[i],
      namespace |-> getNamespaceFromPath(files[i], localeBaseDir)]]

\* `{ url: ..., path: ... }`
PublicFileEntries(files, projectRoot) ==
  [i \in 1..Len(files) |-> [url |-> toPublicUrl(files[i], projectRoot), path |-> files[i]]]

\* `{ path: <import specifier>, namespace: ... }`
ImportFileInfos(files, localeBaseDir, projectRoot) ==
  [i \in 1..Len(files) |->
     [path |-> toRelativeImport(files[i], projectRoot),
      namespace |-> getNamespaceFromPath(files[i], localeBaseDir)]]

ImportPaths(files, projectRoot) ==
  [i \in 1..Len(files) |-> toRelativeImport(files[i], projectRoot)]

\* a generator that tests for a single file before it tests for a glob pattern
DevLoader_SingleBeforeGlob(info, projectRoot, pathBasedNamespacing) ==
  IF Len(info.files) = 0 THEN [kind |-> "empty"]
  ELSE IF info.isPublic
  THEN IF pathBasedNamespacing
       THEN [kind |-> "publicNamespaced",
             fileInfos |-> PublicFileInfos(info.files, info.localeBaseDir, projectRoot)]
       ELSE [kind |-> "publicFirstOrMerge", files |-> PublicFileEntries(info.files, projectRoot)]
  ELSE IF Len(info.files) = 1
  THEN IF pathBasedNamespacing
       THEN [kind |-> "importNamespaced",
             path |-> toRelativeImport(info.files[1], projectRoot),
             namespace |-> getNamespaceFromPath(info.files[1], info.localeBaseDir)]
       ELSE [kind |-> "import", path |-> toRelativeImport(info.files[1], projectRoot)]
  ELSE IF info.globPattern # Undefined /\ pathBasedNamespacing
  THEN [kind |-> "globNamespaced", pattern |-> info.globPattern,
        localeBaseDir |-> getLocaleBaseDirForNamespace(info.localeBaseDir, projectRoot)]
  ELSE IF info.globPattern # Undefined
  THEN [kind |-> "globFirstOrMerge", pattern |-> info.globPattern]
  ELSE IF pathBasedNamespacing
  THEN [kind |-> "importAllNamespaced",
        fileInfos |-> ImportFileInfos(info.files, info.localeBaseDir, projectRoot)]
  ELSE [kind |-> "importAllFirstOrMerge", paths |-> ImportPaths(info.files, projectRoot)]

\* generateDevTranslationsModule, lines 467-574: the loader of one locale
DevLoader(info, projectRoot, pathBasedNamespacing) ==
  IF Len(info.files) = 0 THEN [kind |-> "empty"]
  ELSE IF info.isPublic
  THEN IF pathBasedNamespacing
       THEN [kind |-> "publicNamespaced",
             fileInfos |-> PublicFileInfos(info.files, info.localeBaseDir, projectRoot)]
       ELSE [kind |-> "publicFirstOrMerge", files |-> PublicFileEntries(info.files, projectRoot)]
  ELSE IF info.globPattern # Undefined /\ pathBasedNamespacing
  THEN [kind |-> "globNamespaced", pattern |-> info.globPattern,
        localeBaseDir |-> getLocaleBaseDirForNamespace(info.localeBaseDir, projectRoot)]
  ELSE IF info.globPattern # Undefined
  THEN [kind |-> "globFirstOrMerge", pattern |-> info.globPattern]
  ELSE IF Len(info.files) = 1
  THEN IF pathBasedNamespacing
       THEN [kind |-> "importNamespaced",
             path |-> toRelativeImport(info.files[1], projectRoot),
             namespace |-> getNamespaceFromPath(info.files[1], info.localeBaseDir)]
       ELSE [kind |-> "import", path |-> toRelativeImport(info.files[1], projectRoot)]
  ELSE IF pathBasedNamespacing
  THEN [kind |-> "importAllNamespaced",
        fileInfos |-> ImportFileInfos(info.files, info.localeBaseDir, projectRoot)]
  ELSE [kind |-> "importAllFirstOrMerge", paths |-> ImportPaths(info.files, projectRoot)]

generateDevTranslationsModule(infos, projectRoot, pathBasedNamespacing) ==
  LET needsPublicLoader ==
        \E i \in 1..Len(infos) : Len(infos[i].value.files) > 0 /\ infos[i].value.isPublic
  IN [helpers |-> {DeepMergeHelper}
                    \cup (IF pathBasedNamespacing THEN {NamespaceHelper} ELSE {})
                    \cup (IF needsPublicLoader THEN {PublicLoaderHelper} ELSE {}),
      translationLoaders |->
        [i \in 1..Len(infos) |->
           [key |-> infos[i].key,
            value |-> DevLoader(infos[i].value, projectRoot, pathBasedNamespacing)]]]

\* generateBuildTranslationsModule, lines 626-709: the loader of one locale
BuildLoader(info, projectRoot, pathBasedNamespacing) ==
  IF Len(info.files) = 0 THEN [kind |-> "empty"]
  ELSE IF info.isPublic
  THEN IF pathBasedNamespacing
       THEN [kind |-> "publicNamespaced",
             fileInfos |-> PublicFileInfos(info.files, info.localeBaseDir, projectRoot)]
       ELSE IF Len(info.files) = 1
       THEN [kind |-> "publicSingle", url |-> toPublicUrl(info.files[1], projectRoot),
             path |-> info.files[1]]
       ELSE [kind |-> "publicMerge", files |-> PublicFileEntries(info.files, projectRoot)]
  ELSE IF Len(info.files) = 1
  THEN IF pathBasedNamespacing
       THEN [kind |-> "importNamespaced",
             path |-> toRelativeImport(info.files[1], projectRoot),
             namespace |-> getNamespaceFromPath(info.files[1], info.localeBaseDir)]
       ELSE [kind |-> "import", path |-> toRelativeImport(info.files[1], projectRoot)]
  ELSE IF pathBasedNamespacing
  THEN [kind |-> "importAllNamespaced",
        fileInfos |-> ImportFileInfos(info.files, info.localeBaseDir, projectRoot)]
  ELSE [kind |-> "importAllMerge", paths |-> ImportPaths(info.files, projectRoot)]

\* the public branch: needsDeepMerge = info.files.length > 1;
PublicNeedsDeepMerge(before, fileCount) == fileCount > 1

\* the three flags after the loop body has run for one locale
BuildFlags(flags, entry, pathBasedNamespacing) ==
  LET info == entry.value
      n == Len(info.files)
  IN IF n = 0 THEN flags
     ELSE IF info.isPublic
     THEN [needsDeepMerge |-> PublicNeedsDeepMerge(flags.needsDeepMerge, n),
           needsNamespaceWrapper |-> flags.needsNamespaceWrapper \/ pathBasedNamespacing,
           needsPublicLoader |-> TRUE]
     ELSE IF n = 1
     THEN [flags EXCEPT !.needsNamespaceWrapper = @ \/ pathBasedNamespacing]
     ELSE [flags EXCEPT !.needsDeepMerge = TRUE,
                        !.needsNamespaceWrapper = @ \/ pathBasedNamespacing]

generateBuildTranslationsModule(infos, projectRoot, pathBasedNamespacing) ==
  LET Body(flags, entry) == BuildFlags(flags, entry, pathBasedNamespacing)
      flags == ForEach([needsDeepMerge |-> FALSE, needsNamespaceWrapper |-> FALSE,
                        needsPublicLoader |-> FALSE], infos, Body)
  IN [helpers |-> (IF flags.needsDeepMerge THEN {DeepMergeHelper} ELSE {})
                    \cup (IF flags.needsNamespaceWrapper THEN {NamespaceHelper} ELSE {})
                    \cup (IF flags.needsPublicLoader THEN {PublicLoaderHelper} ELSE {}),
      translationLoaders |->
        [i \in 1..Len(infos) |->
           [key |-> infos[i].key,
            value |-> BuildLoader(infos[i].value, projectRoot, pathBasedNamespacing)]]]


(***************************************************************************)
(* Running the generated module                                            *)
(***************************************************************************)
\* what an await settles to
Resolved(v) == [threw |-> FALSE, value |-> v]
Rejected == [threw |-> TRUE, value |-> EmptyObj]

\* the file a URL is served from: public/<url>
ServedFile(url, projectRoot) == PathJoin(PathJoin(projectRoot, <<D("public")>>), url)

\* __loadPublicJson(url, absolutePath): fetch(url) in the browser (a response
\* that is not ok throws), readFileSync(absolutePath) on the server
__loadPublicJson(url, absolutePath, env, projectRoot) ==
  LET file == IF env = "browser" THEN ServedFile(url, projectRoot) ELSE absolutePath
  IN IF file \in fs THEN Resolved(FileContent(file)) ELSE Rejected

\* import('./<relative path>').then(m => m.default ?? m)
ImportJson(relativePath, projectRoot) ==
  LET file == PathJoin(projectRoot, relativePath)
  IN IF file \in fs THEN Resolved(FileContent(file)) ELSE Rejected

\* the files import.meta.glob(pattern) matches
GlobMatches(pattern, projectRoot) ==
  {f \in fs : IsUnder(f, PathJoin(projectRoot, pattern.segs)) /\ EndsWithJson(f)}

\* str.replace(pat, ''): the first occurrence of pat removed
ReplaceFirst(str, pat) ==
  LET at == {i \in 1..(Len(str) - Len(pat) + 1) : SubSeq(str, i, i + Len(pat) - 1) = pat}
  IN IF at = {} THEN str
     ELSE LET i == CHOOSE j \in at : \A k \in at : j <= k
          IN SubSeq(str, 1, i - 1) \o SubSeq(str, i + Len(pat), Len(str))

\* the namespace the glob loader computes from a key of the glob result
GlobNamespace(file, localeBaseDir, projectRoot) ==
  LET normalizedPath == PathStr(PathRelative(projectRoot, file))
      relativePath == StripJsonExt(ReplaceFirst(normalizedPath, PathStr(localeBaseDir) \o <<"/">>))
  IN StripTrailingIndex(SeparatorsToDots(relativePath))

\* every load taken to have succeeded
AnyRejected_Never(rs) == FALSE

\* Promise.all rejects as soon as one of the loads rejects
AnyRejected(rs) == \E i \in 1..Len(rs) : rs[i].threw
Values(rs) == [i \in 1..Len(rs) |-> rs[i].value]

\* the helper is called: a ReferenceError unless the module defines it
Defined(helper, mod) == helper \in mod.helpers

MergeAll(contents, mod) ==
  IF Defined(DeepMergeHelper, mod) THEN Resolved(__deepMerge(EmptyObj, contents)) ELSE Rejected

FirstOrMergeAll(contents, mod) ==
  IF Len(contents) = 1 THEN Resolved(contents[1]) ELSE MergeAll(contents, mod)

WrapAndMergeAll(namespaces, contents, mod) ==
  IF ~Defined(NamespaceHelper, mod) THEN Rejected
  ELSE MergeAll([i \in 1..Len(contents) |-> __wrapWithNamespace(namespaces[i], contents[i])], mod)

LoadAllPublic(files, env, mod, projectRoot) ==
  [i \in 1..Len(files) |->
     IF Defined(PublicLoaderHelper, mod)
     THEN __loadPublicJson(files[i].url, files[i].path, env, projectRoot)
     ELSE Rejected]

\* the keys of the object import.meta.glob yields for a loader: vite lists the
\* matches sorted by path
GlobOrder(loader, projectRoot) ==
  IF loader.kind \in {"globNamespaced", "globFirstOrMerge"}
  THEN SetToSortedSeq(GlobMatches(loader.pattern, projectRoot))
  ELSE <<>>

\* the body of one loader
RunLoader(loader, mod, env, projectRoot) ==
  LET globOrder == GlobOrder(loader, projectRoot)
  IN
  CASE loader.kind = "empty" -> Resolved(EmptyObj)
    [] loader.kind = "publicNamespaced" ->
         LET responses == LoadAllPublic(loader.fileInfos, env, mod, projectRoot)
         IN IF AnyRejected(responses) THEN Rejected
            ELSE WrapAndMergeAll([i \in 1..Len(responses) |-> loader.fileInfos[i].namespace],
                                 Values(responses), mod)
    [] loader.kind = "publicFirstOrMerge" ->
         LET responses == LoadAllPublic(loader.files, env, mod, projectRoot)
         IN IF AnyRejected(responses) THEN Rejected
            ELSE FirstOrMergeAll(Values(responses), mod)
    [] loader.kind = "publicSingle" ->
         IF Defined(PublicLoaderHelper, mod)
         THEN __loadPublicJson(loader.url, loader.path, env, projectRoot)
         ELSE Rejected
    [] loader.kind = "publicMerge" ->
         LET responses == LoadAllPublic(loader.files, env, mod, projectRoot)
         IN IF AnyRejected(responses) THEN Rejected ELSE MergeAll(Values(responses), mod)
    [] loader.kind = "globNamespaced" ->
         IF globOrder = <<>> THEN Resolved(EmptyObj)
         ELSE WrapAndMergeAll([i \in 1..Len(globOrder) |->
                                 GlobNamespace(globOrder[i], loader.localeBaseDir, projectRoot)],
                              [i \in 1..Len(globOrder) |-> FileContent(globOrder[i])], mod)
    [] loader.kind = "globFirstOrMerge" ->
         IF globOrder = <<>> THEN Resolved(EmptyObj)
         ELSE FirstOrMergeAll([i \in 1..Len(globOrder) |-> FileContent(globOrder[i])], mod)
    [] loader.kind = "importNamespaced" ->
         LET m == ImportJson(loader.path, projectRoot)
         IN IF m.threw THEN Rejected
            ELSE IF ~Defined(NamespaceHelper, mod) THEN Rejected
            ELSE Resolved(__wrapWithNamespace(loader.namespace, m.value))
    [] loader.kind = "import" -> ImportJson(loader.path, projectRoot)
    [] loader.kind = "importAllNamespaced" ->
         LET modules == [i \in 1..Len(loader.fileInfos) |->
                           ImportJson(loader.fileInfos[i].path, projectRoot)]
         IN IF AnyRejected(modules) THEN Rejected
            ELSE WrapAndMergeAll([i \in 1..Len(modules) |-> loader.fileInfos[i].namespace],
                                 Values(modules), mod)
    [] loader.kind = "importAllFirstOrMerge" ->
         LET modules == [i \in 1..Len(loader.paths) |-> ImportJson(loader.paths[i], projectRoot)]
         IN IF AnyRejected(modules) THEN Rejected ELSE FirstOrMergeAll(Values(modules), mod)
    [] loader.kind = "importAllMerge" ->
         LET modules == [i \in 1..Len(loader.paths) |-> ImportJson(loader.paths[i], projectRoot)]
         IN IF AnyRejected(modules) THEN Rejected ELSE MergeAll(Values(modules), mod)

\* loadTranslations(locale) of either module: {} without a loader and when
\* the loader throws
loadTranslations(mod, locale, env, projectRoot) ==
  IF ~MapHas(mod.translationLoaders, locale)
  THEN [hasLoader |-> FALSE, loaderThrew |-> FALSE, value |-> EmptyObj]
  ELSE LET r == RunLoader(MapGet(mod.translationLoaders, locale), mod, env, projectRoot)
       IN [hasLoader |-> TRUE, loaderThrew |-> r.threw,
           value |-> IF r.threw THEN EmptyObj ELSE r.value]


\* what the emitted loadTranslations writes to the console: the dev module
\* warns of a missing loader and reports a failed one when import.meta.env.DEV
\* is set, the production module reports a failed loader with console.error
LoadTranslationsLog(dev, DEV, r) ==
  IF dev
  THEN IF ~r.hasLoader THEN (IF DEV THEN <<"warn">> ELSE <<>>)
       ELSE IF r.loaderThrew /\ DEV THEN <<"error">>
       ELSE <<>>
  ELSE IF r.hasLoader /\ r.loaderThrew THEN <<"error">> ELSE <<>>

(***************************************************************************)
(* Library calls examined one at a time (SpecLib): the arguments are drawn *)
(* in LibInit, the action of the function applies it.                      *)
(***************************************************************************)
MaxSources == 2

S1 == Str("one")
S2 == Str("two")
A1 == Arr(<<"p">>)
A2 == Arr(<<"q", "r">>)
I1 == Obj([x |-> S1])
I2 == Obj([y |-> S2])
I3 == Obj([x |-> S2, constructor |-> S1])

\* the values a translation object holds at its key "k"
KValues == {S1, A1, A2, Null, I1, I2, I3}

OptionalKey(key, v) == IF v = Undefined THEN <<>> ELSE (key :> v)

\* translation objects: key "k" absent or any value, key "prototype" absent or a string
MergeObjects ==
  {Obj(OptionalKey("k", kv) @@ OptionalKey("prototype", pv)) :
     kv \in KValues \cup {Undefined}, pv \in {Undefined, S2}}

\* what a caller may pass as a source: an object, or null (skipped)
MergeSources == MergeObjects \cup {Null}

SeqsUpTo(S, n) == UNION {[1..m -> S] : m \in 1..n}

MergeCalls ==
  {[fn |-> f, target |-> tg, sources |-> ss] :
     f \in {"deepMerge", "__deepMerge"}, tg \in MergeObjects,
     ss \in SeqsUpTo(MergeSources, MaxSources)}

EnDir == PathJoin(DefaultI18nDir, <<D("en")>>)
EsDir == PathJoin(DefaultI18nDir, <<D("es")>>)

NamespaceFiles ==
  {PathJoin(EnDir, <<J("index")>>),
   PathJoin(EnDir, <<J("common")>>),
   PathJoin(EnDir, <<D("auth"), J("login")>>),
   PathJoin(EnDir, <<D("settings"), J("index")>>),
   PathJoin(EnDir, <<D("settings"), <<"index", ".", "JSON">>>>),
   PathJoin(EnDir, <<D("index"), J("page")>>),
   PathJoin(EsDir, <<J("index")>>),
   PathJoin(DefaultI18nDir, <<J("en")>>)}

NamespaceCalls ==
  {[fn |-> "getNamespaceFromPath", filePath |-> f, localeDir |-> d] :
     f \in NamespaceFiles, d \in {EnDir, EsDir, DefaultI18nDir}}

MaxArrayLen == 3

\* the members a per-locale array is written from: files, a folder, a glob,
\* a folder written without its trailing slash
ArrayMembers ==
  {FilePathString(Append(SrcEnSegs, J("a"))),
   FilePathString(Append(SrcEnSegs, J("b"))),
   FilePathString(SrcEnSegs \o <<D("z"), J("a")>>),
   FolderPathString(SrcEnSegs),
   GlobPathString(Append(SrcEnSegs, D("z"))),
   FilePathString(Append(SrcEnSegs, D("z")))}

ResolveCalls ==
  {[fn |-> "resolveTranslationPaths", input |-> PathArray(items)] :
     items \in SeqsUpTo(ArrayMembers, MaxArrayLen)}

AllowLists ==
  {Undefined, [list |-> <<>>], [list |-> <<"en">>], [list |-> <<"fr", "de", "en">>]}

DiscoverCalls ==
  {[fn |-> "autoDiscoverTranslations", baseDir |-> DefaultI18nDir,
    configuredLocales |-> allow, entries |-> order] :
     allow \in AllowLists, order \in ReaddirOrders(DefaultI18nDir)}

IdlePlugin ==
  /\ config = Undefined
  /\ isDev = FALSE
  /\ cache = NoCache
  /\ resolved = Unset
  /\ translationInfo = <<>>
  /\ usedCache = FALSE
  /\ cacheCheck = "notRead"
  /\ module = Unset
  /\ loaded = NotCalled
  /\ IdleServer
  /\ IdleRuntime

LibInit ==
  /\ result = NotCalled
  /\ IdlePlugin
  /\ \/ call \in MergeCalls /\ fs = {}
     \/ call \in NamespaceCalls /\ fs = {}
     \/ call \in ResolveCalls /\ fs \in SUBSET SrcFiles
     \/ fs \in SUBSET PublicFiles /\ call \in DiscoverCalls

CallDeepMerge ==
  /\ call.fn = "deepMerge" /\ ~result.done
  /\ result' = Return(deepMerge(call.target, call.sources))
  /\ UNCHANGED <<call, pluginVars>>

CallEmittedDeepMerge ==
  /\ call.fn = "__deepMerge" /\ ~result.done
  /\ result' = Return(__deepMerge(call.target, call.sources))
  /\ UNCHANGED <<call, pluginVars>>

CallGetNamespaceFromPath ==
  /\ call.fn = "getNamespaceFromPath" /\ ~result.done
  /\ result' = Return(getNamespaceFromPath(call.filePath, call.localeDir))
  /\ UNCHANGED <<call, pluginVars>>

CallResolveTranslationPaths ==
  /\ call.fn = "resolveTranslationPaths" /\ ~result.done
  /\ result' = Return(resolveTranslationPaths(call.input, ProjectRoot))
  /\ UNCHANGED <<call, pluginVars>>

CallAutoDiscoverTranslations ==
  /\ call.fn = "autoDiscoverTranslations" /\ ~result.done
  /\ result' = Return(autoDiscoverTranslations(call.baseDir, call.configuredLocales, call.entries))
  /\ UNCHANGED <<call, pluginVars>>

LibNext ==
  \/ CallDeepMerge
  \/ CallEmittedDeepMerge
  \/ CallGetNamespaceFromPath
  \/ CallResolveTranslationPaths
  \/ CallAutoDiscoverTranslations

SpecLib == LibInit /\ [][LibNext]_vars

Returned(fns) == call.fn \in fns /\ result.done

(***************************************************************************)
(* Claims about the library functions                                      *)
(***************************************************************************)
\* the segments joined by "." (what a namespace of these segments reads)
RECURSIVE DotJoin(_)
DotJoin(segs) ==
  IF segs = <<>> THEN <<>>
  ELSE IF Len(segs) = 1 THEN segs[1]
  ELSE DotJoin(Front(segs)) \o <<".">> \o Last(segs)

\* C3: a file named index.json contributes no trailing namespace segment:
\* its namespace is that of the directory holding it, and the empty
\* namespace when it lies directly inside the locale directory.
C3_IndexContributesNoSegment ==
  (/\ Returned({"getNamespaceFromPath"})
   /\ Last(call.filePath) = J("index")
   /\ IsUnder(call.filePath, call.localeDir))
  => result.value = DotJoin(PathRelative(call.localeDir, Dirname(call.filePath)))

RECURSIVE HasForbiddenKey(_)
HasForbiddenKey(v) ==
  /\ v.t = "obj"
  /\ \/ Keys(v) \cap FORBIDDEN_KEYS # {}
     \/ \E k \in Keys(v) : HasForbiddenKey(v.o[k])

\* C4: the object deepMerge (or __deepMerge) returns holds none of the keys
\* __proto__, constructor, prototype at any nesting depth.
C4_NoForbiddenKeyAtAnyDepth ==
  Returned({"deepMerge", "__deepMerge"}) => ~HasForbiddenKey(result.value)

\* merging one value into another: two plain objects merge key by key,
\* anything else is replaced by the later value
RECURSIVE MergeValue(_, _)
MergeValue(a, b) ==
  IF a.t = "obj" /\ b.t = "obj"
  THEN Obj([k \in Keys(a) \cup (Keys(b) \ FORBIDDEN_KEYS) |->
         IF k \notin Keys(b) \ FORBIDDEN_KEYS THEN a.o[k]
         ELSE IF k \in Keys(a) THEN MergeValue(a.o[k], b.o[k])
         ELSE b.o[k]])
  ELSE b

\* the value at key k after folding the sources objs, left to right, into target
RECURSIVE FoldAt(_, _, _)
FoldAt(k, target, objs) ==
  IF objs = <<>> THEN (IF k \in Keys(target) THEN target.o[k] ELSE Undefined)
  ELSE LET prev == FoldAt(k, target, Front(objs))
           s == Last(objs)
       IN IF k \notin Keys(s) \ FORBIDDEN_KEYS THEN prev
          ELSE IF prev = Undefined THEN s.o[k]
          ELSE MergeValue(prev, s.o[k])

IsObjectSource(s) == s.t = "obj"

\* C5: deepMerge is a left-to-right fold: at every non-forbidden key two plain
\* objects merge recursively and anything else is replaced by the source value
\* (arrays too), so the last source defining a scalar or array key wins.
C5_LeftToRightFold ==
  Returned({"deepMerge", "__deepMerge"}) =>
    LET objs == SelectSeq(call.sources, IsObjectSource)
        keys == Keys(call.target) \cup UNION {Keys(objs[i]) \ FORBIDDEN_KEYS : i \in 1..Len(objs)}
    IN /\ result.value.t = "obj"
       /\ Keys(result.value) = keys
       /\ \A k \in keys : result.value.o[k] = FoldAt(k, call.target, objs)
       /\ \A k \in keys \ FORBIDDEN_KEYS : \A i \in 1..Len(objs) :
            (/\ k \in Keys(objs[i])
             /\ \A j \in (i + 1)..Len(objs) : k \notin Keys(objs[j])
             /\ objs[i].o[k].t # "obj")
            => result.value.o[k] = objs[i].o[k]

\* an array replaced by an object, then that object merged with a later one
C5_Witness ==
  /\ Returned({"deepMerge"})
  /\ call.target = Obj("k" :> A1)
  /\ call.sources = <<Obj("k" :> I1), Obj("k" :> I3)>>
  /\ result.value = Obj("k" :> Obj([x |-> S2]))

\* what one member of a per-locale array stands for: the .json files below a
\* folder or glob base, or the one file it names
ExpansionSet(member, projectRoot) ==
  LET p == PathResolve(projectRoot, member)
  IN IF member.star \/ member.slash \/ isDirectory(p)
     THEN {f \in fs : IsUnder(f, p) /\ EndsWithJson(f)}
     ELSE {p}

StrictlyAscending(files) ==
  \A i, j \in DOMAIN files : i < j => LocaleCompareLess(files[i], files[j])

Permuted(items, p) == [i \in DOMAIN items |-> items[p[i]]]

\* C6: for a per-locale array, resolveTranslationPaths returns the
\* deduplicated, alphabetically sorted union of the members' expansions, and
\* the same list for every permutation of the array.
C6_SortedUnionWhateverTheOrder ==
  Returned({"resolveTranslationPaths"}) =>
    LET items == call.input.items
    IN /\ Range(result.value) = UNION {ExpansionSet(items[i], ProjectRoot) : i \in DOMAIN items}
       /\ StrictlyAscending(result.value)
       /\ \A p \in Permutations(DOMAIN items) :
            resolveTranslationPaths(PathArray(Permuted(items, p)), ProjectRoot) = result.value

\* a repeated member and a folder that holds it, written in descending order
C6_Witness ==
  /\ Returned({"resolveTranslationPaths"})
  /\ fs = SrcFiles
  /\ call.input.items = <<FilePathString(Append(SrcEnSegs, J("b"))),
                          FolderPathString(SrcEnSegs),
                          FilePathString(Append(SrcEnSegs, J("b")))>>
  /\ result.value = <<SrcA, SrcB, SrcZA>>

JsonBelow(dir) == {f \in fs : IsUnder(f, dir) /\ EndsWithJson(f)}

\* the locale names the base directory offers: its subdirectories with a
\* .json file somewhere below, and the stems of its own .json files
DirLocales(baseDir) ==
  {Word(e.name) : e \in {d \in DirEntries(baseDir) :
                           d.isDir /\ JsonBelow(PathJoin(baseDir, <<d.name>>)) # {}}}
RootLocales(baseDir) ==
  {Word(BasenameJson(e.name)) : e \in {d \in DirEntries(baseDir) :
                                         ~d.isDir /\ EndsWith(d.name, <<".", "json">>)}}
Allowed(names, configuredLocales) ==
  {n \in names : ~SkippedByAllowList(n, configuredLocales)}

\* C10 (locales): discovery returns exactly the subdirectories holding a .json
\* file plus the names of the root-level .json files, restricted to a
\* non-empty allow-list; a subdirectory without .json files yields nothing.
C10_DiscoveredLocales ==
  (Returned({"autoDiscoverTranslations"}) /\ isDirectory(call.baseDir)) =>
    LET r == result.value
        expected == Allowed(DirLocales(call.baseDir) \cup RootLocales(call.baseDir),
                            call.configuredLocales)
    IN /\ Range(r.locales) = expected
       /\ Len(r.locales) = Cardinality(expected)
       /\ MapKeySet(r.translations) = expected

\* C10: ... and a root-level locale's file list is the union of the same-named
\* root files: it holds <name>.json, and nothing else unless a subdirectory of
\* that name holds .json files too.
C10_AutoDiscovery ==
  (Returned({"autoDiscoverTranslations"}) /\ isDirectory(call.baseDir)) =>
    /\ C10_DiscoveredLocales
    /\ \A n \in Allowed(RootLocales(call.baseDir), call.configuredLocales) :
         /\ MapHas(result.value.translations, n)
         /\ PathJoin(call.baseDir, <<J(n)>>) \in Range(MapGet(result.value.translations, n))
         /\ n \notin DirLocales(call.baseDir)
              => MapGet(result.value.translations, n) = <<PathJoin(call.baseDir, <<J(n)>>)>>


(***************************************************************************)
(* The plugin over runs of vite (Spec): the project and its configuration  *)
(* are drawn in Init; each run resolves the configuration (buildStart),    *)
(* generates the translations module (load) and the application calls      *)
(* loadTranslations.  The cache file outlives the run.                     *)
(***************************************************************************)
\* the projects a run may find on disk
Projects ==
  {{},
   {EnLogin},
   {EnCommon, EnRoot},
   {EnLogin, EnCommon, EsCommon, FrRoot},
   {DeNotes, EsCommon, SrcB},
   {SrcA, SrcB},
   {SrcB, SrcZA, EsCommon},
   {SrcA, SrcB, SrcZA, EnCommon}}

SrcFile(stem) == FilePathString(Append(SrcEnSegs, J(stem)))

\* config.translations
TranslationsConfigs ==
  {Undefined,
   FolderPathString(SrcI18nSegs),
   Mapping(<<[key |-> "en", value |-> PathArray(<<SrcFile("b"), SrcFile("a")>>)]>>),
   Mapping(<<[key |-> "en", value |-> PathArray(<<FilePathString(SrcEnSegs \o <<D("z"), J("a")>>),
                                                   SrcFile("b")>>)]>>),
   Mapping(<<[key |-> "es", value |-> FilePathString(DefaultI18nSegs \o <<D("es"), J("common")>>)],
             [key |-> "en", value |-> FolderPathString(SrcEnSegs)]>>),
   Mapping(<<[key |-> "en", value |-> GlobPathString(SrcEnSegs)]>>)}

\* config.locales
LocalesConfigs == {Undefined, [list |-> <<>>], [list |-> <<"en">>], [list |-> <<"fr", "en">>]}

Configs ==
  [locales : LocalesConfigs, translations : TranslationsConfigs,
   pathBasedNamespacing : {Undefined, Bool(TRUE), Bool(FALSE)}]

\* the locales the application asks for, and where it runs
RequestedLocales == {"en", "es", "fr"}
Environments == {"browser", "server"}

\* import.meta.env.DEV where the module runs: either value under vite serve
\* (it follows the mode), false in a production bundle
DevFlags(dev) == IF dev THEN BOOLEAN ELSE {FALSE}

NoCall == [fn |-> "none"]

Init ==
  /\ call = NoCall
  /\ result = NotCalled
  /\ fs \in Projects
  /\ config \in Configs
  /\ isDev \in BOOLEAN
  /\ cache = NoCache
  /\ resolved = Unset
  /\ translationInfo = <<>>
  /\ usedCache = FALSE
  /\ cacheCheck = "notRead"
  /\ module = Unset
  /\ loaded = NotCalled
  /\ IdleServer
  /\ IdleRuntime

\* a new run on the project as it then is: vitePlugin(config) and
\* configResolved (isDev = command === 'serve')
NewRun ==
  /\ resolved # Unset
  /\ fs' \in Projects
  /\ isDev' \in BOOLEAN
  /\ resolved' = Unset
  /\ translationInfo' = <<>>
  /\ usedCache' = FALSE
  /\ cacheCheck' = "notRead"
  /\ module' = Unset
  /\ loaded' = NotCalled
  /\ UNCHANGED <<call, result, config, cache, serverVars, runtimeVars>>

BuildStart ==
  \E entries \in ReaddirOrders(translationsBaseDir(config, ProjectRoot)) :
    LET after == IF CacheUsable(isDev)
                 THEN BuildFromCache(config, loadCache, ProjectRoot, translationInfo)
                 ELSE BuildFresh(config, isDev, cache, ProjectRoot, translationInfo, entries)
    IN /\ resolved' = after.resolved
       /\ translationInfo' = after.translationInfo
       /\ cache' = after.cache
       /\ usedCache' = CacheUsable(isDev)
       /\ cacheCheck' = CacheCheck(isDev)
       /\ UNCHANGED <<call, result, fs, config, isDev, module, loaded, serverVars, runtimeVars>>

\* load('\0ez-i18n:translations')
LoadTranslationsModule ==
  /\ resolved # Unset
  /\ module' = IF isDev
               THEN generateDevTranslationsModule(translationInfo, ProjectRoot,
                                                  resolved.pathBasedNamespacing)
               ELSE generateBuildTranslationsModule(translationInfo, ProjectRoot,
                                                    resolved.pathBasedNamespacing)
  /\ loaded' = NotCalled
  /\ UNCHANGED <<call, result, fs, config, isDev, cache, resolved, translationInfo,
                 usedCache, cacheCheck, serverVars, runtimeVars>>

CallLoadTranslations ==
  /\ module # Unset
  /\ \E locale \in RequestedLocales, env \in Environments, DEV \in DevFlags(isDev) :
       LET r == loadTranslations(module, locale, env, ProjectRoot)
       IN loaded' = [done |-> TRUE, locale |-> locale, env |-> env, DEV |-> DEV,
                     hasLoader |-> r.hasLoader, loaderThrew |-> r.loaderThrew,
                     value |-> r.value,
                     log |-> LoadTranslationsLog(isDev, DEV, r)]
  /\ UNCHANGED <<call, result, fs, config, isDev, cache, resolved, translationInfo,
                 usedCache, cacheCheck, module, serverVars, runtimeVars>>

Next ==
  \/ NewRun
  \/ BuildStart
  \/ LoadTranslationsModule
  \/ CallLoadTranslations

Spec == Init /\ [][Next]_vars


(***************************************************************************)
(* Claims about the plugin and the generated module                        *)
(***************************************************************************)
\* the module in hand is the one the resolved state generates
ModuleCurrent ==
  /\ resolved # Unset
  /\ module # Unset
  /\ module = IF isDev
              THEN generateDevTranslationsModule(translationInfo, ProjectRoot,
                                                 resolved.pathBasedNamespacing)
              ELSE generateBuildTranslationsModule(translationInfo, ProjectRoot,
                                                   resolved.pathBasedNamespacing)

\* loadTranslations has returned for a locale the resolved state knows
LoadedLocale == ModuleCurrent /\ loaded.done /\ MapHas(translationInfo, loaded.locale)
LoadedInfo == MapGet(translationInfo, loaded.locale)

\* a file parsed and, with namespacing on, wrapped under its namespace
Wrapped(file, info) ==
  IF resolved.pathBasedNamespacing
  THEN wrapWithNamespace(getNamespaceFromPath(file, info.localeBaseDir), FileContent(file))
  ELSE FileContent(file)

ManualMerge(files, info) == deepMerge(EmptyObj, [i \in 1..Len(files) |-> Wrapped(files[i], info)])

SignInNamespaced == Obj([auth |-> Obj([login |-> Obj([title |-> Str("Sign In")])])])

\* C1: a locale whose only file is public/i18n/<locale>/auth/login.json holding
\* {title: "Sign In"}, namespacing on: loadTranslations(locale) returns
\* {auth: {login: {title: "Sign In"}}}, from the production module and from
\* the dev module.
C1_SignInExample ==
  (/\ LoadedLocale
   /\ resolved.pathBasedNamespacing
   /\ LoadedInfo.files = <<EnLogin>>
   /\ LoadedInfo.localeBaseDir = EnDir)
  => loaded.value = SignInNamespaced

\* C2: for every locale with N >= 1 files, loadTranslations(locale) of the
\* production module returns deepMerge({}, w1, ..., wN), wi the i-th resolved
\* file parsed and (namespacing on) wrapped under its namespace.
C2_ProductionRoundTrip ==
  (/\ LoadedLocale
   /\ ~isDev
   /\ Len(LoadedInfo.files) >= 1
   /\ Range(LoadedInfo.files) \subseteq fs)
  => loaded.value = ManualMerge(LoadedInfo.files, LoadedInfo)

\* path.basename(file)
Filename(file) == Last(file)

\* the orders of a file list that ascend by filename (equal names in either order)
FilenameOrders(files) ==
  {order \in [1..Len(files) -> Range(files)] :
     /\ \A f \in Range(files) : \E i \in DOMAIN order : order[i] = f
     /\ \A i \in 1..(Len(files) - 1) : ~StrLess(Filename(order[i + 1]), Filename(order[i]))}

\* C7: a locale with several files is merged alphabetically by filename, a
\* later file overriding an earlier one, whatever the order of the
\* configuration array and also when the files lie in different directories.
C7_MergedByFilename ==
  (LoadedLocale /\ ~loaded.loaderThrew /\ Len(LoadedInfo.files) > 1)
  => \E order \in FilenameOrders(LoadedInfo.files) :
       loaded.value = ManualMerge(order, LoadedInfo)

ExplicitLocales == config.locales # Undefined /\ Len(config.locales.list) > 0

\* the locale set discovery offers: from the cache when it was taken, else
\* from the mapping or the base directory
DiscoveredLocaleSet ==
  IF usedCache THEN MapKeySet(cache.discovered)
  ELSE IF config.translations.t = "mapping" THEN MapKeySet(config.translations.entries)
  ELSE DirLocales(translationsBaseDir(config, ProjectRoot))
         \cup RootLocales(translationsBaseDir(config, ProjectRoot))

\* C8: after buildStart, resolved.locales is the configured list when that is
\* non-empty and the discovered locale set otherwise, on the fresh path and
\* on the cache path (a configured empty list included).
C8_ResolvedLocales ==
  resolved # Unset
  => IF ExplicitLocales
     THEN resolved.locales = config.locales.list
     ELSE Range(resolved.locales) = DiscoveredLocaleSet

\* C9: every key of a per-locale mapping is in resolved.locales and has a
\* loader in the generated module, also when the configured locales list
\* omits the key.
C9_MappingKeysSupported ==
  (config.translations.t = "mapping" /\ resolved # Unset)
  => \A key \in MapKeySet(config.translations.entries) :
       /\ key \in Range(resolved.locales)
       /\ ModuleCurrent => MapHas(module.translationLoaders, key)

(***************************************************************************)
(* resolveConfig (vite-plugin), the resolution without a scan              *)
(***************************************************************************)
resolveConfig(cfg) ==
  [locales |-> IF cfg.locales # Undefined THEN cfg.locales.list ELSE <<>>,
   translations |-> <<>>,
   pathBasedNamespacing |-> IF cfg.pathBasedNamespacing = Undefined
                            THEN cfg.translations.t \in {"undefined", "string"}
                            ELSE cfg.pathBasedNamespacing.v,
   localeBaseDirs |-> <<>>]

(***************************************************************************)
(* Claims about the defaults, the cache and the loaders                    *)
(***************************************************************************)
\* a translations config is folder-based: absent, a base directory, or a
\* mapping with an entry that is a folder path
FolderBased(translations) ==
  \/ translations.t \in {"undefined", "string"}
  \/ /\ translations.t = "mapping"
     /\ \E i \in 1..Len(translations.entries) :
          /\ translations.entries[i].value.t = "string"
          /\ translations.entries[i].value.slash

ExpectedNamespacing(cfg) ==
  IF cfg.pathBasedNamespacing # Undefined THEN cfg.pathBasedNamespacing.v
  ELSE FolderBased(cfg.translations)

\* C11: path-based namespacing defaults to on for a folder-based translations
\* config (absent, a base directory, or a per-locale entry that is a folder
\* path) and to off otherwise; an explicit value overrides the default.
C11_NamespacingDefault ==
  /\ resolveConfig(config).pathBasedNamespacing = ExpectedNamespacing(config)
  /\ resolved # Unset => resolved.pathBasedNamespacing = ExpectedNamespacing(config)

\* a file the cache lists is no longer on disk
CacheListsMissingFile ==
  /\ cache # NoCache
  /\ cache.version = CACHE_VERSION
  /\ \E i \in 1..Len(cache.discovered) : \E j \in 1..Len(cache.discovered[i].value) :
       /\ cache.discovered[i].value[j] \notin fs
       /\ \A f \in fs : ~StartsWith(f, cache.discovered[i].value[j])

\* the plugin state is that of a fresh resolution of the configuration
\* against the disk, for some order the base directory is read in
FreshlyResolved ==
  \E entries \in ReaddirOrders(translationsBaseDir(config, ProjectRoot)) :
    LET fresh == BuildFresh(config, isDev, cache, ProjectRoot, <<>>, entries)
    IN /\ resolved = fresh.resolved
       /\ \A i \in 1..Len(fresh.translationInfo) :
            /\ MapHas(translationInfo, fresh.translationInfo[i].key)
            /\ MapGet(translationInfo, fresh.translationInfo[i].key)
                 = fresh.translationInfo[i].value

\* C12: when a file listed by a cache of the current version is gone, the next
\* production buildStart does not use the cache for any locale, resolves
\* afresh and, the result being non-empty, rewrites the cache.
C12_StaleCacheBypassed ==
  /\ usedCache => ~CacheListsMissingFile
  /\ (~isDev /\ cacheCheck = "invalid")
       => /\ ~usedCache
          /\ FreshlyResolved
          /\ Len(resolved.translations) > 0 => cache = saveCache(resolved.translations)

\* a production buildStart has met a cache listing a vanished file, resolved
\* afresh and rewritten the cache
C12_Witness ==
  /\ ~isDev
  /\ cacheCheck = "invalid"
  /\ ~usedCache
  /\ resolved # Unset
  /\ Len(resolved.translations) > 0
  /\ cache = saveCache(resolved.translations)

\* C13: in dev mode buildStart neither reads nor writes the cache: it resolves
\* afresh whatever cache file exists.
C13_DevIgnoresCache ==
  /\ []((isDev /\ resolved # Unset)
          => (~usedCache /\ cacheCheck = "notRead" /\ FreshlyResolved))
  /\ [][isDev => cache' = cache]_vars

\* a dev buildStart has run with a valid cache of another result at hand
C13_Witness ==
  /\ isDev
  /\ resolved # Unset
  /\ cache # NoCache
  /\ isCacheValid(cache)
  /\ cache.discovered # resolved.translations

\* the loader the module holds for a locale
LoaderOf(locale) == MapGet(module.translationLoaders, locale)

\* the files a loader body reads, each as the file its load looks for
LoaderReads(loader, env) ==
  CASE loader.kind \in {"publicNamespaced"} ->
         {IF env = "browser" THEN ServedFile(loader.fileInfos[i].url, ProjectRoot)
          ELSE loader.fileInfos[i].path : i \in 1..Len(loader.fileInfos)}
    [] loader.kind \in {"publicFirstOrMerge", "publicMerge"} ->
         {IF env = "browser" THEN ServedFile(loader.files[i].url, ProjectRoot)
          ELSE loader.files[i].path : i \in 1..Len(loader.files)}
    [] loader.kind = "publicSingle" ->
         {IF env = "browser" THEN ServedFile(loader.url, ProjectRoot) ELSE loader.path}
    [] loader.kind \in {"importNamespaced", "import"} -> {PathJoin(ProjectRoot, loader.path)}
    [] loader.kind = "importAllNamespaced" ->
         {PathJoin(ProjectRoot, loader.fileInfos[i].path) : i \in 1..Len(loader.fileInfos)}
    [] loader.kind \in {"importAllFirstOrMerge", "importAllMerge"} ->
         {PathJoin(ProjectRoot, loader.paths[i]) : i \in 1..Len(loader.paths)}
    [] OTHER -> {}

\* the helpers the body of a loader names
HelpersNamed(loader) ==
  CASE loader.kind = "publicNamespaced" -> {PublicLoaderHelper, NamespaceHelper, DeepMergeHelper}
    [] loader.kind \in {"publicFirstOrMerge", "publicMerge"} -> {PublicLoaderHelper, DeepMergeHelper}
    [] loader.kind = "publicSingle" -> {PublicLoaderHelper}
    [] loader.kind \in {"globNamespaced", "importAllNamespaced"} -> {NamespaceHelper, DeepMergeHelper}
    [] loader.kind \in {"globFirstOrMerge", "importAllFirstOrMerge", "importAllMerge"} ->
         {DeepMergeHelper}
    [] loader.kind = "importNamespaced" -> {NamespaceHelper}
    [] OTHER -> {}

SomeReadFails(loader, env) == \E f \in LoaderReads(loader, env) : f \notin fs

\* C14: loadTranslations(locale) never rejects: a loader that throws (one
\* failing file load aborts the locale's Promise.all) gives {}, a locale with
\* no loader or no files gives {}, and a loader fails only for a reason of its
\* own, whatever happened to the loaders of other locales.
C14_FailureContained ==
  loaded.done
  => /\ loaded.loaderThrew => loaded.value = EmptyObj
     /\ ~loaded.hasLoader => loaded.value = EmptyObj
     /\ loaded.hasLoader
          => LET loader == LoaderOf(loaded.locale)
             IN /\ loader.kind = "empty" => (loaded.value = EmptyObj /\ ~loaded.loaderThrew)
                /\ SomeReadFails(loader, loaded.env)
                     => (loaded.loaderThrew /\ loaded.value = EmptyObj)
     /\ \A other \in MapKeySet(module.translationLoaders) \ {loaded.locale} :
          loadTranslations(module, other, loaded.env, ProjectRoot).loaderThrew
            => \/ SomeReadFails(LoaderOf(other), loaded.env)
               \/ ~(HelpersNamed(LoaderOf(other)) \subseteq module.helpers)

\* the loader of one locale failed on a missing file and loadTranslations gave
\* {}, while another locale of the same module loads its translations
C14_Witness ==
  /\ loaded.done
  /\ loaded.hasLoader
  /\ loaded.loaderThrew
  /\ loaded.value = EmptyObj
  /\ SomeReadFails(LoaderOf(loaded.locale), loaded.env)
  /\ \E other \in MapKeySet(module.translationLoaders) \ {loaded.locale} :
       LET r == loadTranslations(module, other, loaded.env, ProjectRoot)
       IN ~r.loaderThrew /\ r.value # EmptyObj

\* C15: a loader failure is logged in development only: the production
\* loadTranslations logs nothing when a loader fails, the dev one logs only
\* when the DEV flag is set.
C15_LoggedInDevOnly ==
  loaded.done
  => /\ ~isDev => loaded.log = <<>>
     /\ (isDev /\ loaded.log # <<>>) => loaded.DEV

(***************************************************************************)
(* Key lookup and interpolation: the runtime t (runtime store) and the     *)
(* server-side function createT builds (middleware).  A translation string *)
(* is a sequence of tokens, a literal piece or a placeholder {name}; a key *)
(* is the sequence of its segments between the dots.                       *)
(***************************************************************************)
Lit(w) == [lit |-> w]
Ph(name) == [ph |-> name]

\* the key as the string it is written as
KeyString(keys) ==
  Concat([i \in 1..Len(keys) |-> IF i = 1 THEN <<Lit(keys[i])>> ELSE <<Lit("."), Lit(keys[i])>>])

\* value[key] of an object or array (undefined when there is no such member)
Member(value, key) ==
  CASE value.t = "obj" -> IF key \in DOMAIN value.o THEN value.o[key] ELSE Undefined
    [] value.t = "arr" -> IF key = "0" /\ Len(value.a) > 0 THEN value.a[1]
                          ELSE IF key = "length" THEN Num(Len(value.a))
                          ELSE Undefined
    [] OTHER -> Undefined

\* value == null || typeof value !== 'object'
NullOrNotObject(value) == value.t \notin {"obj", "arr"}

\* getNestedValue(obj, path): undefined as soon as the walk meets null or a
\* non-object with a segment left
getNestedValue(obj, keys) ==
  LET walk[i \in 0..Len(keys)] ==
        IF i = 0 THEN [stopped |-> FALSE, value |-> obj]
        ELSE IF walk[i - 1].stopped \/ NullOrNotObject(walk[i - 1].value)
        THEN [stopped |-> TRUE, value |-> Undefined]
        ELSE [stopped |-> FALSE, value |-> Member(walk[i - 1].value, keys[i])]
  IN walk[Len(keys)].value

\* the decimal text of a one-digit number
NumberText(n) == <<"0", "1", "2", "3", "4", "5", "6", "7", "8", "9">>[n + 1]

\* String(v) of a parameter value
StringOf(v) ==
  CASE v.t = "str" -> v.s
    [] v.t = "num" -> <<Lit(NumberText(v.n))>>
    [] OTHER -> <<Lit("undefined")>>

\* interpolate(str, params): a placeholder is replaced when `key in params`
interpolate(str, params) ==
  IF params = Undefined THEN str
  ELSE Concat([i \in 1..Len(str) |->
                 IF "ph" \in DOMAIN str[i] /\ str[i].ph \in DOMAIN params.p
                 THEN StringOf(params.p[str[i].ph])
                 ELSE <<str[i]>>])

\* t(key, params) of the runtime, over the translations in the store
t(translations, keys, params) ==
  LET value == getNestedValue(translations, keys)
  IN IF value.t # "str" THEN KeyString(keys) ELSE interpolate(value.s, params)

\* the function createT(translations) returns: a placeholder is replaced by
\* String(params[p] ?? `{${p}}`)
createT(translations, keys, params) ==
  LET walk[i \in 0..Len(keys)] ==
        IF i = 0 THEN [returned |-> FALSE, value |-> translations]
        ELSE IF walk[i - 1].returned \/ NullOrNotObject(walk[i - 1].value)
        THEN [returned |-> TRUE, value |-> Undefined]
        ELSE [returned |-> FALSE, value |-> Member(walk[i - 1].value, keys[i])]
      value == walk[Len(keys)].value
  IN IF walk[Len(keys)].returned \/ value.t # "str" THEN KeyString(keys)
     ELSE IF params = Undefined THEN value.s
     ELSE Concat([i \in 1..Len(value.s) |->
                    IF "ph" \in DOMAIN value.s[i]
                    THEN LET p == value.s[i].ph
                         IN IF p \in DOMAIN params.p /\ params.p[p] # Undefined
                            THEN StringOf(params.p[p])
                            ELSE <<value.s[i]>>
                    ELSE <<value.s[i]>>])

(***************************************************************************)
(* Specification of the translate functions: one call of the runtime t or  *)
(* of the function createT returns, on translations, a key and params      *)
(* drawn from bounded sets.                                                *)
(***************************************************************************)
MaxKeyLen == 3

Greeting == <<Lit("Hello"), Ph("name"), Lit("!")>>
Both == <<Ph("a"), Lit("and"), Ph("name"), Ph("a")>>

TranslationObjects ==
  { Obj([greeting |-> Str(Greeting),
         nested |-> Obj([deep |-> Str(Both), nul |-> Null, list |-> Arr(<<Str(Greeting)>>)]),
         nul |-> Null,
         list |-> Arr(<<Str(<<Lit("x")>>)>>)]),
    Obj([greeting |-> Num(5), deep |-> Str(<<Lit("Plain")>>)]),
    Obj(<<>>) }

KeySegments == {"greeting", "nested", "deep", "nul", "list", "0", "missing"}

TranslateKeys == UNION { [1..n -> KeySegments] : n \in 1..MaxKeyLen }

ParamNames == {"name", "a"}

ParamValues == {Str(<<Lit("World")>>), Str(<<>>), Num(0), Undefined}

TranslateParams ==
  {Undefined} \cup { [p |-> f] : f \in UNION { [names -> ParamValues] : names \in SUBSET ParamNames } }

TranslateCalls ==
  [fn : {"t", "createT"}, translations : TranslationObjects, key : TranslateKeys,
   params : TranslateParams]

RuntimeInit ==
  /\ result = NotCalled
  /\ IdlePlugin
  /\ fs = {}
  /\ call \in TranslateCalls

CallT ==
  /\ call.fn = "t" /\ ~result.done
  /\ result' = Return(t(call.translations, call.key, call.params))
  /\ UNCHANGED <<call, pluginVars>>

CallCreateT ==
  /\ call.fn = "createT" /\ ~result.done
  /\ result' = Return(createT(call.translations, call.key, call.params))
  /\ UNCHANGED <<call, pluginVars>>

RuntimeNext ==
  \/ CallT
  \/ CallCreateT

SpecRuntime == RuntimeInit /\ [][RuntimeNext]_vars

\* what the key resolves to: the member reached by following the segments
\* through objects, or undefined when a segment is missing or the walk meets
\* null or a non-object on the way
RECURSIVE ResolvesTo(_, _)
ResolvesTo(value, keys) ==
  IF keys = <<>> THEN value
  ELSE IF value.t \notin {"obj", "arr"} THEN Undefined
  ELSE ResolvesTo(Member(value, Head(keys)), Tail(keys))

\* every placeholder whose name is present in params replaced by the
\* parameter value, every other one left verbatim
Replaced(str, params) ==
  Concat([i \in 1..Len(str) |->
            IF "ph" \in DOMAIN str[i] /\ params # Undefined /\ str[i].ph \in DOMAIN params.p
            THEN StringOf(params.p[str[i].ph])
            ELSE <<str[i]>>])

ExpectedTranslation(translations, keys, params) ==
  LET leaf == ResolvesTo(translations, keys)
  IN IF leaf.t = "str" THEN Replaced(leaf.s, params) ELSE KeyString(keys)

\* C16: t(key, params) returns the key when the dot-path does not resolve to
\* a string and otherwise the string with every placeholder whose name is
\* present in params replaced and every other left verbatim, and the
\* function createT builds returns the same string for the same inputs.
C16_TranslateAgrees ==
  Returned({"t", "createT"}) =>
    /\ result.value = ExpectedTranslation(call.translations, call.key, call.params)
    /\ result.value = t(call.translations, call.key, call.params)
    /\ result.value = createT(call.translations, call.key, call.params)

\* the two functions agree whenever every parameter value is a string or a number
C16_AgreeOnDefinedValues ==
  (/\ Returned({"t", "createT"})
   /\ call.params # Undefined => \A n \in DOMAIN call.params.p : call.params.p[n] # Undefined)
    => C16_TranslateAgrees

\* the strategy a loader body follows
LoaderStrategy(loader) ==
  CASE loader.kind = "empty" -> "empty"
    [] loader.kind \in {"publicNamespaced", "publicFirstOrMerge", "publicSingle", "publicMerge"} ->
         "public"
    [] loader.kind \in {"globNamespaced", "globFirstOrMerge"} -> "glob"
    [] loader.kind \in {"importNamespaced", "import"} -> "single"
    [] loader.kind \in {"importAllNamespaced", "importAllFirstOrMerge", "importAllMerge"} ->
         "parallel"

\* the first matching rule, in the order the rules are listed
FirstMatchingRule(info, dev) ==
  IF Len(info.files) = 0 THEN "empty"
  ELSE IF \A i \in 1..Len(info.files) : isInPublicDir(info.files[i], ProjectRoot) THEN "public"
  ELSE IF dev /\ info.globPattern # Undefined THEN "glob"
  ELSE IF Len(info.files) = 1 THEN "single"
  ELSE "parallel"

\* the files a loader imports directly, in the order it merges them
ImportOrder(loader) ==
  CASE loader.kind \in {"importNamespaced", "import"} -> <<loader.path>>
    [] loader.kind = "importAllNamespaced" ->
         [i \in 1..Len(loader.fileInfos) |-> loader.fileInfos[i].path]
    [] loader.kind \in {"importAllFirstOrMerge", "importAllMerge"} -> loader.paths

\* no file list mixes files under the public directory with files outside it
Unmixed(info) ==
  \/ \A i \in 1..Len(info.files) : isInPublicDir(info.files[i], ProjectRoot)
  \/ \A i \in 1..Len(info.files) : ~isInPublicDir(info.files[i], ProjectRoot)

\* C17: the loader of every locale follows the first matching rule (no files,
\* public files, in dev a glob pattern, one file, several files), a direct
\* import loader imports the resolved files in their resolved order, and a
\* production module holds no glob-based import.
C17_FirstMatchingRule ==
  ModuleCurrent =>
    \A i \in 1..Len(translationInfo) :
      LET info == translationInfo[i].value
          loader == LoaderOf(translationInfo[i].key)
      IN /\ MapHas(module.translationLoaders, translationInfo[i].key)
         /\ Unmixed(info) =>
              /\ LoaderStrategy(loader) = FirstMatchingRule(info, isDev)
              /\ LoaderStrategy(loader) \in {"single", "parallel"} =>
                   ImportOrder(loader) =
                     [k \in 1..Len(info.files) |-> toRelativeImport(info.files[k], ProjectRoot)]
         /\ ~isDev => LoaderStrategy(loader) # "glob"

\* a dev module whose glob loader stands for a locale with exactly one file
C17_Witness ==
  /\ ModuleCurrent
  /\ isDev
  /\ \E i \in 1..Len(translationInfo) :
       /\ Len(translationInfo[i].value.files) = 1
       /\ LoaderStrategy(LoaderOf(translationInfo[i].key)) = "glob"

(***************************************************************************)
(* The request middleware (onRequest).  A query value, a cookie value or a *)
(* header is absent or present with a string of tokens; a locale code is   *)
(* one token.                                                              *)
(***************************************************************************)
Absent == [t |-> "absent"]
Present(v) == [t |-> "present", v |-> v]

\* str.split(sep)[0]: what stands before the first separator
RECURSIVE SplitHead(_, _)
SplitHead(str, sep) ==
  IF str = <<>> \/ Head(str) = sep THEN <<>>
  ELSE <<Head(str)>> \o SplitHead(Tail(str), sep)

\* acceptLang?.split(',')[0]?.split('-')[0]
browserLang(acceptLang) ==
  IF acceptLang = Absent THEN Absent
  ELSE Present(SplitHead(SplitHead(acceptLang.v, ","), "-"))

\* x && locales.includes(x)
TruthyAndIncluded(locales, x) ==
  x # Absent /\ Len(x.v) = 1 /\ Includes(locales, x.v[1])

\* onRequest: locals.locale, locals.translations and the cookie it sets
onRequest(req, mod, projectRoot) ==
  LET langParam == req.lang
      cookieValue == req.cookie
      browser == browserLang(req.acceptLanguage)
      locale == IF TruthyAndIncluded(req.locales, langParam) THEN langParam.v[1]
                ELSE IF TruthyAndIncluded(req.locales, cookieValue) THEN cookieValue.v[1]
                ELSE IF TruthyAndIncluded(req.locales, browser) THEN browser.v[1]
                ELSE req.defaultLocale
  IN [locale |-> locale,
      translations |-> loadTranslations(mod, locale, "server", projectRoot).value,
      setCookie |-> IF /\ langParam # Absent /\ langParam.v # <<>>
                       /\ langParam # cookieValue
                       /\ TruthyAndIncluded(req.locales, langParam)
                    THEN Present(<<locale>>) ELSE Absent]

\* the requests of the specification
QueryValues == {Absent, Present(<<>>), Present(<<"es">>), Present(<<"en">>), Present(<<"xx">>)}

AcceptLanguageHeaders ==
  {Absent,
   Present(<<>>),
   Present(<<"es", "-", "MX", ",", "en", ";", "q=0.9">>),
   Present(<<"es", ",", "en", ";", "q=0.8">>),
   Present(<<"es", ";", "q=0.9", ",", "en", ";", "q=0.8">>),
   Present(<<"xx", ",", "es">>),
   Present(<<"en", "-", "US">>)}

Requests ==
  [fn : {"onRequest"}, lang : QueryValues, cookie : QueryValues,
   acceptLanguage : AcceptLanguageHeaders,
   locales : {<<"en", "es">>, <<"es">>}, defaultLocale : {"en"}]

\* the project the site was built from (auto-discovery under public/i18n), and
\* what is left of it where the server runs
BuiltProject == {EnCommon, EsCommon}

MiddlewareInit ==
  /\ result = NotCalled
  /\ call \in Requests
  /\ config = Undefined
  /\ isDev = FALSE
  /\ cache = NoCache
  /\ resolved = Unset
  /\ usedCache = FALSE
  /\ cacheCheck = "notRead"
  /\ loaded = NotCalled
  /\ IdleServer
  /\ IdleRuntime
  /\ fs \in {BuiltProject, {EnCommon}}
  /\ translationInfo =
       <<[key |-> "en",
          value |-> TranslationInfo("en", <<EnCommon>>, PathJoin(DefaultI18nDir, <<D("en")>>),
                                    TRUE, Undefined)],
         [key |-> "es",
          value |-> TranslationInfo("es", <<EsCommon>>, PathJoin(DefaultI18nDir, <<D("es")>>),
                                    TRUE, Undefined)]>>
  /\ module = generateBuildTranslationsModule(translationInfo, ProjectRoot, TRUE)

CallOnRequest ==
  /\ call.fn = "onRequest" /\ ~result.done
  /\ result' = Return(onRequest(call, module, ProjectRoot))
  /\ UNCHANGED <<call, pluginVars>>

MiddlewareNext == CallOnRequest

SpecMiddleware == MiddlewareInit /\ [][MiddlewareNext]_vars

\* the primary subtag of the first entry of an Accept-Language header: what
\* stands before the first "-" of the entry's language range, the range ending
\* where the entry's parameters (";q=") begin
PrimarySubtag(acceptLang) ==
  IF acceptLang = Absent THEN Absent
  ELSE Present(SplitHead(SplitHead(SplitHead(acceptLang.v, ","), ";"), "-"))

InLocales(x, locales) ==
  x # Absent /\ Len(x.v) = 1 /\ x.v[1] \in Range(locales)

\* C18: locals.locale is the ?lang value if it is in locales, else the cookie
\* value if it is in locales, else the primary subtag of the first
\* Accept-Language entry if it is in locales, else defaultLocale; it is a
\* member of locales or the default locale; and the cookie is written only
\* when a ?lang value in locales differs from the cookie value.
C18_LocalePriority ==
  Returned({"onRequest"}) =>
    LET primary == PrimarySubtag(call.acceptLanguage)
    IN /\ result.value.locale =
            IF InLocales(call.lang, call.locales) THEN call.lang.v[1]
            ELSE IF InLocales(call.cookie, call.locales) THEN call.cookie.v[1]
            ELSE IF InLocales(primary, call.locales) THEN primary.v[1]
            ELSE call.defaultLocale
       /\ result.value.locale \in Range(call.locales) \cup {call.defaultLocale}
       /\ result.value.setCookie # Absent =>
            InLocales(call.lang, call.locales) /\ call.lang # call.cookie

\* the same, for requests whose first Accept-Language entry carries no
\* parameter
C18_WithoutParameters ==
  (/\ Returned({"onRequest"})
   /\ call.acceptLanguage # Absent
        => SplitHead(SplitHead(call.acceptLanguage.v, ","), ";") =
           SplitHead(call.acceptLanguage.v, ","))
    => C18_LocalePriority

\* C19: every helper the body of an emitted loader names (__deepMerge,
\* __wrapWithNamespace, __loadPublicJson) is defined in the generated
\* translations module, in the dev and in the production module.
C19_HelpersDefined ==
  ModuleCurrent =>
    \A i \in 1..Len(module.translationLoaders) :
      HelpersNamed(module.translationLoaders[i].value) \subseteq module.helpers

\* the dev generator emits every helper its loaders name
C19_DevHelpersDefined == isDev => C19_HelpersDefined

\* two ordered maps hold the same entries, whatever their order
SameEntries(a, b) ==
  /\ Range(MapKeys(a)) = Range(MapKeys(b))
  /\ \A k \in Range(MapKeys(a)) : MapGet(a, k) = MapGet(b, k)

\* C20: a production buildStart that accepts the cache ends in the resolved
\* state (locales, locale -> file list, localeBaseDirs, locales with a
\* TranslationInfo entry) that a fresh resolution of the configuration
\* against the disk as it then is would produce.
C20_CacheOnlySkipsScanning ==
  usedCache =>
    \E entries \in ReaddirOrders(translationsBaseDir(config, ProjectRoot)) :
      LET fresh == BuildFresh(config, FALSE, cache, ProjectRoot, <<>>, entries)
      IN /\ Range(resolved.locales) = Range(fresh.resolved.locales)
         /\ SameEntries(resolved.translations, fresh.resolved.translations)
         /\ SameEntries(resolved.localeBaseDirs, fresh.resolved.localeBaseDirs)
         /\ Range(MapKeys(translationInfo)) = Range(MapKeys(fresh.translationInfo))

\* C21: a helper (deepMerge, wrapWithNamespace, the public-asset loader)
\* stands in a generated translations module only if the body of at least
\* one loader of that module names it, in the dev and in the production
\* module.
C21_NoUnusedHelper ==
  ModuleCurrent =>
    \A h \in module.helpers :
      \E i \in 1..Len(module.translationLoaders) :
        h \in HelpersNamed(module.translationLoaders[i].value)

\* the production generator emits no helper that no loader names
C21_ProductionNoUnusedHelper == ~isDev => C21_NoUnusedHelper

(***************************************************************************)
(* The lifecycle on configurations whose locale lists files under public/  *)
(* next to files outside it.                                               *)
(***************************************************************************)
MixedTranslationsConfigs ==
  {Mapping(<<[key |-> "en",
              value |-> PathArray(<<SrcFile("b"),
                                    FilePathString(DefaultI18nSegs \o <<D("en"), J("common")>>)>>)]>>),
   Mapping(<<[key |-> "en",
              value |-> PathArray(<<FilePathString(DefaultI18nSegs \o <<D("en"), J("common")>>),
                                    FilePathString(<<D("i18n"), J("en")>>)>>)]>>)}

MixedProjects == {{}, {EnCommon}, {EnCommon, SrcB}, {EnCommon, SrcB, I18nEn}}

MixedInit ==
  /\ call = NoCall
  /\ result = NotCalled
  /\ fs \in MixedProjects
  /\ config \in [locales : {Undefined, [list |-> <<"en">>]},
                 translations : MixedTranslationsConfigs,
                 pathBasedNamespacing : {Undefined, Bool(TRUE), Bool(FALSE)}]
  /\ isDev \in BOOLEAN
  /\ cache = NoCache
  /\ resolved = Unset
  /\ translationInfo = <<>>
  /\ usedCache = FALSE
  /\ cacheCheck = "notRead"
  /\ module = Unset
  /\ loaded = NotCalled
  /\ IdleServer
  /\ IdleRuntime

MixedNewRun ==
  /\ fs' \in MixedProjects
  /\ NewRun

MixedNext ==
  \/ MixedNewRun
  \/ BuildStart
  \/ LoadTranslationsModule
  \/ CallLoadTranslations

SpecMixed == MixedInit /\ [][MixedNext]_vars

\* C22: in every generated module a file under the public directory is
\* loaded by the public fetch loader, never by a bundler import or a glob
\* import, and a file outside the public directory is never loaded through a
\* public URL, also when the file list of a locale mixes the two.
C22_StrategyFollowsLocation ==
  ModuleCurrent =>
    \A i \in 1..Len(translationInfo) :
      LET info == translationInfo[i].value
          loader == LoaderOf(translationInfo[i].key)
      IN \A k \in 1..Len(info.files) :
           isInPublicDir(info.files[k], ProjectRoot) <=> LoaderStrategy(loader) = "public"

\* the same for locales whose files all lie on one side
C22_UnmixedFollowsLocation ==
  ModuleCurrent =>
    \A i \in 1..Len(translationInfo) :
      LET info == translationInfo[i].value
          loader == LoaderOf(translationInfo[i].key)
      IN Unmixed(info) =>
           \A k \in 1..Len(info.files) :
             isInPublicDir(info.files[k], ProjectRoot) <=> LoaderStrategy(loader) = "public"

\* C24: the locales and the locale -> file list mapping that a resolution
\* pass returns are the same for every order in which the entries of the
\* base directory are enumerated, also when a locale directory <name>/ and a
\* root-level file <name>.json both exist.
C24_SameForEveryOrder ==
  Returned({"autoDiscoverTranslations"}) =>
    \A order \in ReaddirOrders(call.baseDir) :
      LET other == autoDiscoverTranslations(call.baseDir, call.configuredLocales, order)
      IN /\ other.locales = result.value.locales
         /\ SameEntries(other.translations, result.value.translations)

\* the same when no locale has both a directory and a root-level file
C24_SameWithoutRootFileClash ==
  (\A e1, e2 \in DirEntries(DefaultI18nDir) :
     (e1.isDir /\ ~e2.isDir) => e2.name # J(e1.name[1]))
    => C24_SameForEveryOrder

(***************************************************************************)
(* The dev server: configureServer, the watcher's 'add' and 'unlink'       *)
(* handlers and handleHotUpdate                                            *)
(***************************************************************************)
\* configureServer, lines 347-376: the Map of watched directory -> locale
WatchEachLocale(baseDir, info) ==
  LET SetDir(m, locale) == MapSet(m, PathJoin(baseDir, <<D(locale)>>), locale)
  IN ForEach(<<>>, MapKeys(info), SetDir)

WatchEntry(m, entry, projectRoot) ==
  LET locale == entry.key
      localePath == entry.value
      pathType == detectPathType(localePath)
      SetDirOf(mm, file) == MapSet(mm, Dirname(PathResolve(projectRoot, file)), locale)
  IN CASE pathType = "folder" -> MapSet(m, PathResolve(projectRoot, localePath), locale)
       [] pathType = "glob" ->
            IF localePath.segs # <<>> THEN MapSet(m, PathResolve(projectRoot, localePath), locale)
            ELSE m
       [] pathType = "array" -> ForEach(m, localePath.items, SetDirOf)
       [] OTHER -> m

WatchedDirs(cfg, info, projectRoot) ==
  IF cfg.translations = Undefined THEN WatchEachLocale(PathJoin(projectRoot, DefaultI18nSegs), info)
  ELSE IF cfg.translations.t = "string"
  THEN WatchEachLocale(PathResolve(projectRoot, cfg.translations), info)
  ELSE LET Watch(m, entry) == WatchEntry(m, entry, projectRoot)
       IN ForEach(<<>>, cfg.translations.entries, Watch)

\* the watcher's 'add' handler, lines 392-398: the locale of the first watched
\* directory the file lies under
UnderWatchedDir(file, watched) == \E i \in 1..Len(watched) : IsUnder(file, watched[i].key)

\* a handler that attributes a new file to the directory registered last
AddedFileLocale_LastRegistered(file, watched) == watched[Len(watched)].value

AddedFileLocale(file, watched) ==
  watched[CHOOSE i \in 1..Len(watched) :
            /\ IsUnder(file, watched[i].key)
            /\ \A j \in 1..(i - 1) : ~IsUnder(file, watched[j].key)].value

\* info.files is the array resolved.translations[locale] holds when the last
\* pass resolved the locale: a change of the one is a change of the other
SameArray(res, locale) ==
  /\ res # Unset
  /\ Includes(res.locales, locale)
  /\ MapHas(res.translations, locale)

WithFiles(info, res, locale, files) ==
  [translationInfo |-> MapSet(info, locale, [MapGet(info, locale) EXCEPT !.files = files]),
   resolved |-> IF SameArray(res, locale)
                THEN [res EXCEPT !.translations = MapSet(@, locale, files)]
                ELSE res]

\* info.files.push(file); info.files.sort((a, b) => a.localeCompare(b))
PushAndSort(files, file) == SortPaths(Append(files, file))

\* files.splice(files.indexOf(file), 1)
SpliceOut(files, file) ==
  LET index == CHOOSE i \in 1..Len(files) : files[i] = file /\ \A j \in 1..(i - 1) : files[j] # file
  IN SubSeq(files, 1, index - 1) \o SubSeq(files, index + 1, Len(files))

\* the first TranslationInfo, in the Map's order, whose files include the file
FirstListing(info, file) ==
  CHOOSE i \in 1..Len(info) :
    /\ Includes(info[i].value.files, file)
    /\ \A j \in 1..(i - 1) : ~Includes(info[j].value.files, file)

Listed(info, file) == \E i \in 1..Len(info) : Includes(info[i].value.files, file)

(***************************************************************************)
(* Specification of a session: one plugin instance, vite serve (isDev, the *)
(* dev server and its watcher) or vite build --watch, while the project    *)
(* changes on disk.                                                        *)
(***************************************************************************)
MaxChanges == 3

SessionTranslationsConfigs ==
  {Undefined,
   Mapping(<<[key |-> "en", value |-> FolderPathString(SrcEnSegs)]>>),
   Mapping(<<[key |-> "en", value |-> PathArray(<<SrcFile("a"), SrcFile("b")>>)],
             [key |-> "es", value |-> PathArray(<<SrcFile("b")>>)]>>)}

\* the files that come and go during a session
SessionFiles == {EnLogin, EnCommon, EsCommon, DeNotes, SrcA, SrcB}

SessionProjects == {{EnCommon, EsCommon}, {SrcA}, {EnCommon, SrcA, SrcB}}

SessionInit ==
  /\ call = NoCall
  /\ result = NotCalled
  /\ fs \in SessionProjects
  /\ config \in [locales : {Undefined}, translations : SessionTranslationsConfigs,
                 pathBasedNamespacing : {Undefined}]
  /\ isDev \in BOOLEAN
  /\ cache = NoCache
  /\ resolved = Unset
  /\ translationInfo = <<>>
  /\ usedCache = FALSE
  /\ cacheCheck = "notRead"
  /\ module = Unset
  /\ loaded = NotCalled
  /\ IdleServer
  /\ IdleRuntime

\* configureServer(server): vite serve calls it once
ConfigureServer ==
  /\ isDev
  /\ watchedDirToLocale = Unset
  /\ watchedDirToLocale' = [dirs |-> WatchedDirs(config, translationInfo, ProjectRoot)]
  /\ UNCHANGED <<call, result, fs, config, isDev, cache, resolved, translationInfo, usedCache,
                 cacheCheck, module, loaded, event, changes, runtimeVars>>

\* the project changes while no watcher is listening
ChangeOnDisk ==
  /\ watchedDirToLocale = Unset
  /\ changes < MaxChanges
  /\ \E f \in SessionFiles : fs' = IF f \in fs THEN fs \ {f} ELSE fs \cup {f}
  /\ changes' = changes + 1
  /\ UNCHANGED <<call, result, config, isDev, cache, resolved, translationInfo, usedCache,
                 cacheCheck, module, loaded, watchedDirToLocale, event, runtimeVars>>

\* a file is created, deleted or edited under the eyes of the watcher
Deliver(type, file) ==
  /\ watchedDirToLocale # Unset
  /\ ~(event.type # "none" /\ event.pending)
  /\ changes < MaxChanges
  /\ changes' = changes + 1
  /\ event' = [type |-> type, file |-> file, pending |-> TRUE]
  /\ UNCHANGED <<call, result, config, isDev, cache, resolved, translationInfo, usedCache,
                 cacheCheck, module, loaded, watchedDirToLocale, runtimeVars>>

CreateFile == \E f \in SessionFiles \ fs : fs' = fs \cup {f} /\ Deliver("add", f)
DeleteFile == \E f \in fs : fs' = fs \ {f} /\ Deliver("unlink", f)
EditFile == \E f \in fs : fs' = fs /\ Deliver("change", f)

Pending(type) == event.type = type /\ event.pending

Handled == event' = [event EXCEPT !.pending = FALSE]

\* server.watcher.on('add', ...)
OnAdd ==
  /\ Pending("add")
  /\ Handled
  /\ LET file == event.file
         locale == AddedFileLocale(file, watchedDirToLocale.dirs)
     IN IF ~EndsWithJson(file) \/ ~UnderWatchedDir(file, watchedDirToLocale.dirs)
        THEN UNCHANGED <<translationInfo, resolved, module>>
        ELSE IF ~MapHas(translationInfo, locale)
        THEN UNCHANGED <<translationInfo, resolved, module>>
        ELSE LET files == MapGet(translationInfo, locale).files
                 after == WithFiles(translationInfo, resolved, locale,
                                    IF Includes(files, file) THEN files
                                    ELSE PushAndSort(files, file))
             IN /\ translationInfo' = after.translationInfo
                /\ resolved' = after.resolved
                /\ module' = Unset
  /\ UNCHANGED <<call, result, fs, config, isDev, cache, usedCache, cacheCheck, loaded,
                 watchedDirToLocale, changes, runtimeVars>>

\* server.watcher.on('unlink', ...)
OnUnlink ==
  /\ Pending("unlink")
  /\ Handled
  /\ LET file == event.file
     IN IF ~EndsWithJson(file) \/ ~Listed(translationInfo, file)
        THEN UNCHANGED <<translationInfo, resolved, module>>
        ELSE LET entry == translationInfo[FirstListing(translationInfo, file)]
                 after == WithFiles(translationInfo, resolved, entry.key,
                                    SpliceOut(entry.value.files, file))
             IN /\ translationInfo' = after.translationInfo
                /\ resolved' = after.resolved
                /\ module' = Unset
  /\ UNCHANGED <<call, result, fs, config, isDev, cache, usedCache, cacheCheck, loaded,
                 watchedDirToLocale, changes, runtimeVars>>

\* handleHotUpdate({ file, server })
HandleHotUpdate ==
  /\ Pending("change")
  /\ Handled
  /\ module' = IF isDev /\ EndsWithJson(event.file) /\ Listed(translationInfo, event.file)
               THEN Unset ELSE module
  /\ UNCHANGED <<call, result, fs, config, isDev, cache, resolved, translationInfo, usedCache,
                 cacheCheck, loaded, watchedDirToLocale, changes, runtimeVars>>

SessionNext ==
  \/ BuildStart
  \/ LoadTranslationsModule
  \/ ConfigureServer
  \/ ChangeOnDisk
  \/ CreateFile
  \/ DeleteFile
  \/ EditFile
  \/ OnAdd
  \/ OnUnlink
  \/ HandleHotUpdate

SpecSession == SessionInit /\ [][SessionNext]_vars

\* a resolution pass has just completed: a step that delivers or handles no
\* event and changes the resolved state
PassCompleted ==
  /\ event' = event
  /\ resolved' # resolved \/ translationInfo' # translationInfo

\* the per-locale map holds exactly the locales of the resolved config, each
\* with the file list the resolved config gives it
ExactlyThePass(res, info) ==
  /\ MapKeySet(info) = Range(res.locales)
  /\ \A i \in 1..Len(info) :
       info[i].value.files = IF MapHas(res.translations, info[i].key)
                             THEN MapGet(res.translations, info[i].key) ELSE <<>>

\* C23: a resolution pass discards the result of the pass before it: when
\* buildStart has run again on the same plugin instance, the TranslationInfo
\* map and the resolved config hold exactly the locales and file lists of
\* that pass, with no entry left over.
C23_PassReplacesResult ==
  [][PassCompleted => ExactlyThePass(resolved', translationInfo')]_vars

\* the first pass of a plugin instance leaves exactly its own result
C23_FirstPassExact ==
  [][(PassCompleted /\ resolved = Unset) => ExactlyThePass(resolved', translationInfo')]_vars

\* the dev server has handled the event it was delivered
EventHandled(type) == Pending(type) /\ event' = [event EXCEPT !.pending = FALSE]

\* the locales whose watched directory the file lies under
Owners(file) ==
  {watchedDirToLocale.dirs[i].value :
     i \in {j \in 1..Len(watchedDirToLocale.dirs) : IsUnder(file, watchedDirToLocale.dirs[j].key)}}

C26_ListsSortedAndDistinct ==
  \A i \in 1..Len(translationInfo) : StrictlyAscending(translationInfo[i].value.files)

\* the same for projects in which no locale has both a directory and a
\* root-level file
C26_SortedWithoutRootFiles ==
  (\A f \in fs : Len(f) > Len(DefaultI18nDir) + 1 \/ ~IsUnder(f, DefaultI18nDir))
    => C26_ListsSortedAndDistinct

\* C27: when the 'unlink' of a .json file has been handled, the file is on
\* no locale's list, also when several locales listed it, and the lists of
\* the locales that did not hold it are as they were.
C27_UnlinkedFromEveryList ==
  [][(EventHandled("unlink") /\ EndsWithJson(event.file))
       => /\ ~Listed(translationInfo', event.file)
          /\ MapKeys(translationInfo') = MapKeys(translationInfo)
          /\ \A i \in 1..Len(translationInfo) :
               ~Includes(translationInfo[i].value.files, event.file)
                 => translationInfo'[i] = translationInfo[i]
    ]_vars

\* the same when at most one locale lists the file
C27_UnlinkedWhenListedOnce ==
  [][(/\ EventHandled("unlink") /\ EndsWithJson(event.file)
      /\ Cardinality({i \in 1..Len(translationInfo) :
                        Includes(translationInfo[i].value.files, event.file)}) <= 1)
       => /\ ~Listed(translationInfo', event.file)
          /\ MapKeys(translationInfo') = MapKeys(translationInfo)
          /\ \A i \in 1..Len(translationInfo) :
               ~Includes(translationInfo[i].value.files, event.file)
                 => translationInfo'[i] = translationInfo[i]
    ]_vars

\* C28: in a dev session with auto-discovery, whichever of configureServer
\* and buildStart the host invokes first, once both have run every locale
\* with a TranslationInfo entry has its locale directory registered for
\* watching under its own name.
C28_EveryLocaleWatched ==
  (/\ isDev
   /\ isAutoDiscovery(config)
   /\ watchedDirToLocale # Unset
   /\ resolved # Unset)
    => \A i \in 1..Len(translationInfo) :
         LET locale == translationInfo[i].key
             localeDir == PathJoin(translationsBaseDir(config, ProjectRoot), <<D(locale)>>)
         IN /\ MapHas(watchedDirToLocale.dirs, localeDir)
            /\ MapGet(watchedDirToLocale.dirs, localeDir) = locale

\* the same when no event has been handled since and buildStart ran before
\* configureServer: the Map then holds the locales configureServer saw
C28_WatchedWhenResolvedFirst ==
  (/\ isDev
   /\ isAutoDiscovery(config)
   /\ watchedDirToLocale # Unset
   /\ Len(watchedDirToLocale.dirs) > 0)
    => \A i \in 1..Len(watchedDirToLocale.dirs) :
         MapHas(translationInfo, watchedDirToLocale.dirs[i].value)

(***************************************************************************)
(* The runtime store: initLocale, setTranslations and setLocale.  An async *)
(* setLocale runs up to `await loadTranslations()` when it is invoked and  *)
(* from there to its end when the loader's promise settles.                *)
(***************************************************************************)
MaxCalls == 3

NullLocale == [t |-> "null"]
Loc(locale) == [t |-> "locale", v |-> locale]

\* the translations a loader for the locale resolves to
Tr(locale) == Obj([locale |-> Str(locale)])

\* atom(null), persistentAtom('ez-locale', 'en'), atom({}), atom(false)
InitialStores ==
  [serverLocale |-> NullLocale, localePreference |-> "en", translations |-> EmptyObj,
   localeLoading |-> FALSE, cookie |-> NullLocale]

\* computed([serverLocale, localePreference], (server, client) => server ?? client)
effectiveLocale(st) == IF st.serverLocale # NullLocale THEN st.serverLocale.v ELSE st.localePreference

\* store.set(value), one after the other
Set(store, value) == [store |-> store, value |-> value]
ApplyWrites(st, writes) ==
  LET Write(s, w) == [s EXCEPT ![w.store] = w.value]
  IN ForEach(st, writes, Write)

\* initLocale(locale, trans)
initLocaleWrites(locale, trans) ==
  <<Set("serverLocale", Loc(locale)), Set("localePreference", locale)>>
    \o (IF trans # Undefined THEN <<Set("translations", trans)>> ELSE <<>>)

\* setLocale, the try block after the loader: translations.set (when a loader
\* was given), localePreference.set, serverLocale.set, document.cookie
UpdateWrites(locale, withLoader) ==
  (IF withLoader THEN <<Set("translations", Tr(locale))>> ELSE <<>>)
    \o <<Set("localePreference", locale), Set("serverLocale", Loc(locale)),
         Set("cookie", Loc(locale))>>

\* a finally block that is skipped when the loader rejects
FinallyWrites_OnSuccessOnly(rejected) ==
  IF rejected THEN <<>> ELSE <<Set("localeLoading", FALSE)>>

\* finally { localeLoading.set(false) }
FinallyWrites(rejected) == <<Set("localeLoading", FALSE)>>

\* what setLocale writes once the loader has settled (or without a loader)
SettleWrites(locale, loader) ==
  IF loader = "rejects" THEN FinallyWrites(TRUE)
  ELSE UpdateWrites(locale, loader # "none") \o FinallyWrites(FALSE)

RuntimeLocales == {"en", "es", "fr"}
\* options.loadTranslations: absent, resolving to a module with a default
\* export or to a plain object, or rejecting
Loaders == {"none", "module", "object", "rejects"}

InFlight(c) == c.status = "awaiting"
SomeInFlight == \E i \in 1..Len(calls) : InFlight(calls[i])

SetLocaleInit ==
  /\ call = NoCall
  /\ result = NotCalled
  /\ fs = {}
  /\ config = Undefined
  /\ isDev = FALSE
  /\ cache = NoCache
  /\ resolved = Unset
  /\ translationInfo = <<>>
  /\ usedCache = FALSE
  /\ cacheCheck = "notRead"
  /\ module = Unset
  /\ loaded = NotCalled
  /\ IdleServer
  /\ stores = InitialStores
  /\ calls = <<>>

\* hydration: initLocale(locale, translations) before any setLocale
InitLocale ==
  /\ calls = <<>>
  /\ stores = InitialStores
  /\ \E locale \in RuntimeLocales :
       \E trans \in {Undefined, Tr(locale)} :
         stores' = ApplyWrites(stores, initLocaleWrites(locale, trans))
  /\ UNCHANGED <<call, result, fs, config, isDev, cache, resolved, translationInfo, usedCache,
                 cacheCheck, module, loaded, serverVars, calls>>

\* setLocale(locale, { loadTranslations }) is invoked
SetLocale ==
  /\ Len(calls) < MaxCalls
  /\ \E locale \in RuntimeLocales, loader \in Loaders :
       LET begun == ApplyWrites(stores, <<Set("localeLoading", TRUE)>>)
           writes == SettleWrites(locale, loader)
       IN IF loader = "none"
          THEN /\ stores' = ApplyWrites(begun, writes)
               /\ calls' = Append(calls, [locale |-> locale, loader |-> loader,
                                          status |-> "fulfilled", overlapped |-> SomeInFlight,
                                          writes |-> writes])
          ELSE /\ stores' = begun
               /\ calls' = Append(calls, [locale |-> locale, loader |-> loader,
                                          status |-> "awaiting", overlapped |-> SomeInFlight,
                                          writes |-> <<>>])
  /\ UNCHANGED <<call, result, fs, config, isDev, cache, resolved, translationInfo, usedCache,
                 cacheCheck, module, loaded, serverVars>>

\* the loader of one call in flight settles and the call runs to its end
LoaderSettles ==
  /\ \E i \in 1..Len(calls) :
       /\ InFlight(calls[i])
       /\ LET writes == SettleWrites(calls[i].locale, calls[i].loader)
          IN /\ stores' = ApplyWrites(stores, writes)
             /\ calls' = [calls EXCEPT ![i].status =
                                         IF calls[i].loader = "rejects" THEN "rejected"
                                         ELSE "fulfilled",
                                       ![i].writes = writes]
  /\ UNCHANGED <<call, result, fs, config, isDev, cache, resolved, translationInfo, usedCache,
                 cacheCheck, module, loaded, serverVars>>

SetLocaleNext ==
  \/ InitLocale
  \/ SetLocale
  \/ LoaderSettles

SpecSetLocale == SetLocaleInit /\ [][SetLocaleNext]_vars

\* every call made so far came with a loader that resolves
AllWithResolvingLoaders ==
  \A i \in 1..Len(calls) : calls[i].loader \in {"module", "object"}

\* C29: when setLocale calls with loaders overlap, once all have settled the
\* effective locale and the translations are those of the call invoked last,
\* whatever order the loaders completed in; and localeLoading is true while
\* a call is in flight.
C29_LastInvokedWins ==
  /\ (calls # <<>> /\ AllWithResolvingLoaders /\ ~SomeInFlight)
       => /\ effectiveLocale(stores) = calls[Len(calls)].locale
          /\ stores.translations = Tr(calls[Len(calls)].locale)
  /\ (stores # NoStores /\ SomeInFlight) => stores.localeLoading

\* the same for calls each of which was invoked after the one before settled
C29_HoldsWithoutOverlap ==
  (\A i \in 1..Len(calls) : ~calls[i].overlapped) => C29_LastInvokedWins

\* the position of the first write to a store in a sequence of writes (0 if none)
FirstWrite(writes, store) ==
  IF \E i \in 1..Len(writes) : writes[i].store = store
  THEN CHOOSE i \in 1..Len(writes) :
         writes[i].store = store /\ \A j \in 1..(i - 1) : writes[j].store # store
  ELSE 0

\* call i has settled in this step
Settles(i) ==
  /\ i <= Len(calls) /\ Len(calls') = Len(calls)
  /\ InFlight(calls[i]) /\ ~InFlight(calls'[i])

\* C30: when the loader passed to setLocale rejects, the call rejects, the
\* effective locale, the locale preference and the translations keep their
\* values and localeLoading is false once the call has settled; when the
\* loader resolves, the translations are set before the locale stores and
\* localeLoading is false afterwards.
C30_RejectionLeavesStores ==
  [][\A i \in 1..MaxCalls :
       /\ (Len(calls') = i /\ Len(calls) = i - 1 /\ InFlight(calls'[i]))
            => stores' = [stores EXCEPT !.localeLoading = TRUE]
       /\ (Settles(i) /\ calls[i].loader = "rejects")
            => /\ calls'[i].status = "rejected"
               /\ stores' = [stores EXCEPT !.localeLoading = FALSE]
       /\ (Settles(i) /\ calls[i].loader # "rejects")
            => /\ calls'[i].status = "fulfilled"
               /\ stores'.translations = Tr(calls[i].locale)
               /\ effectiveLocale(stores') = calls[i].locale
               /\ stores'.localePreference = calls[i].locale
               /\ FirstWrite(calls'[i].writes, "translations") > 0
               /\ FirstWrite(calls'[i].writes, "translations")
                    < FirstWrite(calls'[i].writes, "localePreference")
               /\ FirstWrite(calls'[i].writes, "translations")
                    < FirstWrite(calls'[i].writes, "serverLocale")
               /\ ~stores'.localeLoading
    ]_vars

\* a call whose loader rejected has settled while the stores held a locale
\* and translations other than the initial ones, and no call is in flight
C30_Witness ==
  /\ stores # NoStores
  /\ \E i \in 1..Len(calls) : calls[i].status = "rejected" /\ calls[i].locale # effectiveLocale(stores)
  /\ \E i \in 1..Len(calls) : calls[i].status = "fulfilled" /\ calls[i].loader # "none"
  /\ ~SomeInFlight
  /\ ~stores.localeLoading
  /\ stores.translations # EmptyObj

====
